---- MODULE Spec2Model ----
(***************************************************************************)
(* differing: the Go backend of a git diff viewer.  The model covers the   *)
(* path validator (validateRepoPath), the two file handlers (getFileDiff,  *)
(* saveFile) working on the tree through the rooted handle secureRoot, the *)
(* commit-message amend handler (amendCommitMessage), and the handlers     *)
(* that list diffs, files and commits (getDiffs with parseDiffStat,        *)
(* getDiffFiles, getDiffCommits) from the text git prints.                 *)
(*                                                                         *)
(* Strings are sequences of one-character strings, so that the string      *)
(* operations of the code (TrimSpace, TrimPrefix, HasPrefix, Clean, Join)  *)
(* are computed character by character as the code computes them.          *)
(***************************************************************************)
EXTENDS Integers, Sequences, FiniteSets, TLC

\* ------------------------------------------------------------------ bounds
\* Longest path string drawn as an input of validateRepoPath.
MaxPathLen == 6
\* Last second of the wall clock (git stamps commits to the second).
MaxTime == 1
\* Longest file content drawn as an input of saveFile.
MaxContentLen == 2
\* Most lines of a `git diff --numstat` output drawn as an input.
MaxStatLines == 2
\* Most ancestors of the tip commit in the histories drawn.
MaxAncestors == 21
\* Most files of a `git diff --name-status` output drawn as an input.
MaxFiles == 2

\* ----------------------------------------------------------------- strings
\* All strings over alphabet A of length at most n.
StrsUpTo(A, n) == UNION {[1..k -> A] : k \in 0..n}

\* strings.HasPrefix(s, prefix)
HasPrefix(s, prefix) ==
    /\ Len(prefix) <= Len(s)
    /\ SubSeq(s, 1, Len(prefix)) = prefix

\* strings.TrimPrefix(s, "/"): removes one leading slash, if there is one.
TrimPrefixSlash(s) ==
    IF HasPrefix(s, <<"/">>) THEN SubSeq(s, 2, Len(s)) ELSE s

\* unicode.IsSpace restricted to the characters of the model.
IsSpace(c) == c \in {" ", "\n", "\t"}

RECURSIVE TrimLeft(_)
TrimLeft(s) ==
    IF s = <<>> THEN s
    ELSE IF IsSpace(Head(s)) THEN TrimLeft(Tail(s)) ELSE s

RECURSIVE TrimRight(_)
TrimRight(s) ==
    IF s = <<>> THEN s
    ELSE IF IsSpace(s[Len(s)]) THEN TrimRight(SubSeq(s, 1, Len(s) - 1)) ELSE s

\* strings.TrimSpace(s)
TrimSpace(s) == TrimRight(TrimLeft(s))

\* strings.Split(s, sep) for a separator of one character: the pieces
\* between the separators, empty ones included; one piece more than there
\* are separators.
Split(s, sep) ==
    LET at == {i \in 1..Len(s) : s[i] = sep}
        k == Cardinality(at)
        pos(j) == CHOOSE i \in at : Cardinality({x \in at : x < i}) = j - 1
    IN [j \in 1..(k + 1) |->
            SubSeq(s, IF j = 1 THEN 1 ELSE pos(j - 1) + 1,
                      IF j = k + 1 THEN Len(s) ELSE pos(j) - 1)]

\* strings.Fields(s): the pieces between runs of white space, none empty.
RECURSIVE FieldsAcc(_, _, _)
FieldsAcc(s, cur, acc) ==
    IF s = <<>> THEN (IF cur = <<>> THEN acc ELSE Append(acc, cur))
    ELSE IF IsSpace(Head(s))
         THEN FieldsAcc(Tail(s), <<>>, IF cur = <<>> THEN acc ELSE Append(acc, cur))
         ELSE FieldsAcc(Tail(s), Append(cur, Head(s)), acc)

Fields(s) == FieldsAcc(s, <<>>, <<>>)

\* The decimal digits and their values.
Digits == <<"0", "1", "2", "3", "4", "5", "6", "7", "8", "9">>
IsDigit(c) == \E i \in 1..Len(Digits) : Digits[i] = c
DigitVal(c) == (CHOOSE i \in 1..Len(Digits) : Digits[i] = c) - 1

RECURSIVE DigitsVal(_, _)
DigitsVal(s, acc) ==
    IF s = <<>> THEN acc ELSE DigitsVal(Tail(s), acc * 10 + DigitVal(Head(s)))

\* strconv.Atoi(s) with its error discarded: an optional sign and then
\* digits only; 0 for anything else.
Atoi(s) ==
    LET body == IF s # <<>> /\ Head(s) \in {"+", "-"} THEN Tail(s) ELSE s IN
    IF body = <<>> \/ \E i \in 1..Len(body) : ~IsDigit(body[i]) THEN 0
    ELSE IF Head(s) = "-" THEN 0 - DigitsVal(body, 0)
    ELSE DigitsVal(body, 0)

\* A number as git prints it, in decimal.
RECURSIVE Itoa(_)
Itoa(n) ==
    IF n < 10 THEN <<Digits[n + 1]>>
    ELSE Itoa(n \div 10) \o <<Digits[(n % 10) + 1]>>

\* ------------------------------------------------------------------- paths
\* The path elements of p: the runs of characters between separators, the
\* empty ones (from "//", a leading or a trailing "/") dropped.
RECURSIVE SplitPath(_, _, _)
SplitPath(p, cur, acc) ==
    IF p = <<>> THEN (IF cur = <<>> THEN acc ELSE Append(acc, cur))
    ELSE IF Head(p) = "/"
         THEN SplitPath(Tail(p), <<>>, IF cur = <<>> THEN acc ELSE Append(acc, cur))
         ELSE SplitPath(Tail(p), Append(cur, Head(p)), acc)

Elements(p) == SplitPath(p, <<>>, <<>>)

\* filepath.IsAbs(p) on a Unix build
IsAbs(p) == HasPrefix(p, <<"/">>)

\* filepath.Clean on a rooted path, element by element: "." is dropped, ".."
\* removes the element before it, and ".." at the root is dropped.
RECURSIVE CleanRooted(_, _)
CleanRooted(elems, acc) ==
    IF elems = <<>> THEN acc
    ELSE LET e == Head(elems) IN
         IF e = <<".">> THEN CleanRooted(Tail(elems), acc)
         ELSE IF e = <<".", ".">>
              THEN CleanRooted(Tail(elems),
                               IF acc = <<>> THEN acc ELSE SubSeq(acc, 1, Len(acc) - 1))
              ELSE CleanRooted(Tail(elems), Append(acc, e))

\* The rooted path string of a list of elements: "/" for none.
RECURSIVE RenderRooted(_)
RenderRooted(elems) ==
    IF elems = <<>> THEN <<>>
    ELSE <<"/">> \o Head(elems) \o RenderRooted(Tail(elems))

RootedString(elems) == IF elems = <<>> THEN <<"/">> ELSE RenderRooted(elems)

\* filepath.Abs of an absolute path: Clean(p).
Abs(p) == RootedString(CleanRooted(Elements(p), <<>>))

\* filepath.Join(dir, p) for an absolute dir: Clean(dir + "/" + p).
Join(dir, p) == Abs(dir \o <<"/">> \o p)

\* The repository root, as `git rev-parse --show-toplevel` prints it.
gitRoot == <<"/", "r">>

\* ---------------------------------------------------- where a path leads
\* The location a relative path names when followed from the root directory,
\* as a list of directory names below "/": the file system's view, one
\* element at a time.
RECURSIVE Walk(_, _)
Walk(elems, at) ==
    IF elems = <<>> THEN at
    ELSE LET e == Head(elems) IN
         Walk(Tail(elems),
              IF e = <<".">> THEN at
              ELSE IF e = <<".", ".">>
                   THEN (IF at = <<>> THEN at ELSE SubSeq(at, 1, Len(at) - 1))
                   ELSE Append(at, e))

LocationOf(p) == Walk(Elements(p), Elements(gitRoot))

\* The location is the root directory or lies below it.
UnderRoot(loc) ==
    /\ Len(loc) >= Len(Elements(gitRoot))
    /\ SubSeq(loc, 1, Len(Elements(gitRoot))) = Elements(gitRoot)

\* ------------------------------------------------------- validateRepoPath
ErrNone == "ok"
ErrInvalid == "invalid file path"
ErrNotTracked == "file not tracked by git"
ErrOutside == "file path outside repository"

\* The containment test of validateRepoPath on the two absolute strings.
WithinRepo(absFilePath, absRepoDir) ==
    \/ HasPrefix(absFilePath, absRepoDir \o <<"/">>)
    \/ absFilePath = absRepoDir

\* Mutant: the prefix test without the trailing separator.
validateRepoPath_noSeparator(filePath, tracked) ==
    IF filePath = <<>> \/ IsAbs(filePath) THEN ErrInvalid
    ELSE IF ~tracked THEN ErrNotTracked
    ELSE IF ~HasPrefix(Abs(Join(gitRoot, filePath)), Abs(gitRoot)) THEN ErrOutside
    ELSE ErrNone

\* Mutant: the tracked-file check left out.
validateRepoPath_noTracked(filePath, tracked) ==
    IF filePath = <<>> \/ IsAbs(filePath) THEN ErrInvalid
    ELSE IF ~WithinRepo(Abs(Join(gitRoot, filePath)), Abs(gitRoot)) THEN ErrOutside
    ELSE ErrNone

\* Mutant: the containment test made before the tracked-file check.
validateRepoPath_containmentFirst(filePath, tracked) ==
    IF filePath = <<>> \/ IsAbs(filePath) THEN ErrInvalid
    ELSE IF ~WithinRepo(Abs(Join(gitRoot, filePath)), Abs(gitRoot)) THEN ErrOutside
    ELSE IF ~tracked THEN ErrNotTracked
    ELSE ErrNone

\* validateRepoPath(filePath); tracked is the answer of
\* `git -C gitRoot ls-files --error-unmatch filePath` (exit status 0).
validateRepoPath(filePath, tracked) ==
    IF filePath = <<>> \/ IsAbs(filePath) THEN ErrInvalid
    ELSE IF ~tracked THEN ErrNotTracked
    ELSE IF ~WithinRepo(Abs(Join(gitRoot, filePath)), Abs(gitRoot)) THEN ErrOutside
    ELSE ErrNone

\* ---------------------------------------------------------- parseDiffStat
\* One pass of the loop of parseDiffStat over the lines, the totals so far
\* in acc.
RECURSIVE parseDiffStatLines(_, _)
parseDiffStatLines(lines, acc) ==
    IF lines = <<>> THEN acc
    ELSE LET line == Head(lines)
             parts == Fields(line)
         IN parseDiffStatLines(Tail(lines),
              IF line = <<>> \/ Len(parts) < 2 THEN acc
              ELSE [additions |-> acc.additions
                                    + (IF parts[1] # <<"-">> THEN Atoi(parts[1]) ELSE 0),
                    deletions |-> acc.deletions
                                    + (IF parts[2] # <<"-">> THEN Atoi(parts[2]) ELSE 0),
                    filesCount |-> acc.filesCount + 1])

NoStat == [additions |-> 0, deletions |-> 0, filesCount |-> 0]

\* Mutant: a binary line left out of the file count.
parseDiffStat_skipBinary(output) ==
    LET lines == Split(TrimSpace(output), "\n")
        kept == SelectSeq(lines, LAMBDA l : Len(Fields(l)) < 2 \/ Fields(l)[1] # <<"-">>)
    IN parseDiffStatLines(kept, NoStat)

\* parseDiffStat(output)
parseDiffStat(output) ==
    parseDiffStatLines(Split(TrimSpace(output), "\n"), NoStat)

\* One file of a diff as `git diff --numstat` counts it: the lines added
\* and deleted, or a binary file, which has no line counts.
StatPaths == {<<"f">>, <<"a", " ", "b">>}
StatEntries ==
    [additions : {2, 3, 12}, deletions : {0, 1}, binary : {FALSE}, path : StatPaths]
    \cup [additions : {0}, deletions : {0}, binary : {TRUE}, path : StatPaths]

\* The numstat line of a file: the two counts, or "-" for a binary file,
\* and the path, separated by tabs.
NumstatLine(e) ==
    (IF e.binary THEN <<"-">> ELSE Itoa(e.additions)) \o <<"\t">>
    \o (IF e.binary THEN <<"-">> ELSE Itoa(e.deletions)) \o <<"\t">> \o e.path

\* The output of `git diff --numstat` for a list of files: one line each,
\* every line ended by a newline.
RECURSIVE NumstatOutput(_)
NumstatOutput(es) ==
    IF es = <<>> THEN <<>>
    ELSE NumstatLine(Head(es)) \o <<"\n">> \o NumstatOutput(Tail(es))

\* -------------------------------------------------- state of the validator
\* The validator under test: the path given, the answer of the tracked-file
\* check, and the error returned.
VARIABLES vPath, vTracked, vResult
\* The working tree on disk and the file request each client has in flight.
VARIABLES disk, req
\* The tip commit, the remote-tracking branches' commits, the wall clock and
\* the amend request each client has in flight.
VARIABLES head, remote, now, areq
\* The per-file line counts git is about to report and what parseDiffStat
\* returned for them; the number of ancestors of the tip commit and the
\* list request in flight.
VARIABLES statLines, statResult, anc, lreq
\* The process from its start: where main() is, the globals gitRoot and
\* secureRoot it sets, and what it has served.
VARIABLES main
\* The state of the browser client (App): the selection, the list of files
\* (the state `files` of App) and the diff loaded, the loading flag, the
\* requests in flight, the content of the
\* editor, the number of its changes and the answers its saves received.
VARIABLES selectedDiff, clientFiles, selectedFile, fileDiff, loading, fetches,
          editor, saves, edits, answers

valVars == <<vPath, vTracked, vResult>>
fileVars == <<disk, req>>
amendVars == <<head, remote, now, areq>>
listVars == <<statLines, statResult, anc, lreq>>
mainVars == <<main>>
clientVars == <<selectedDiff, clientFiles, selectedFile, fileDiff, loading, fetches,
                editor, saves, edits, answers>>
vars == <<valVars, fileVars, amendVars, listVars, mainVars, clientVars>>

PathAlphabet == {"/", ".", "r", "f"}

\* A call of validateRepoPath about to be made: any path string, any answer
\* of the tracked-file check.
InitValidate ==
    /\ vPath \in StrsUpTo(PathAlphabet, MaxPathLen)
    /\ vTracked \in BOOLEAN
    /\ vResult = "pending"

\* The call returns.
Validate ==
    /\ vResult = "pending"
    /\ vResult' = validateRepoPath(vPath, vTracked)
    /\ UNCHANGED <<vPath, vTracked, fileVars, amendVars, listVars,
                 mainVars, clientVars>>

\* ---------------------------------------------------------- working tree
\* The clients whose requests the HTTP server runs concurrently, one
\* handler invocation per request.
Clients == {"c1", "c2"}

\* The files of the fixture: f is tracked and on disk, m is tracked and
\* missing from disk, u is on disk and untracked, and /x lies outside the
\* repository root.
LocF == <<"/", "r", "/", "f">>
LocM == <<"/", "r", "/", "m">>
LocU == <<"/", "r", "/", "u">>
LocX == <<"/", "x">>
FileLocs == {LocF, LocM, LocU, LocX}

\* The paths of the index, relative to the root.
TrackedPaths == {<<"f">>, <<"m">>}

InitDisk ==
    [l \in FileLocs |->
        IF l = LocM THEN [exists |-> FALSE, data |-> <<>>]
        ELSE IF l = LocF THEN [exists |-> TRUE, data |-> <<"a">>]
        ELSE [exists |-> TRUE, data |-> <<"b">>]]

\* `git -C gitRoot ls-files --error-unmatch filePath` exits 0: git resolves
\* the pathspec from the root, refuses one that leaves the repository, and
\* matches a tracked file or a directory holding one.
LsFilesMatches(filePath) ==
    LET loc == LocationOf(filePath)
        rel == SubSeq(loc, Len(Elements(gitRoot)) + 1, Len(loc))
    IN /\ UnderRoot(loc)
       /\ \E t \in TrackedPaths :
            /\ Len(rel) <= Len(Elements(t))
            /\ SubSeq(Elements(t), 1, Len(rel)) = rel

\* The blob `git show <rev>:<path>` prints, empty when there is none (the
\* handler discards the error).  f was changed and m added by the HEAD commit.
GitShow(rev, filePath) ==
    IF filePath = <<"f">> THEN (IF rev = "HEAD" THEN <<"a">> ELSE <<"b">>)
    ELSE IF filePath = <<"m">> /\ rev = "HEAD" THEN <<"b">>
    ELSE <<>>

\* The rooted handle (os.Root) resolving a name: the location below the
\* root, or <<>> when the handle refuses (an empty or absolute name, or a
\* ".." that leaves the root).
RECURSIVE RootWalk(_, _)
RootWalk(elems, at) ==
    IF elems = <<>> THEN <<at>>
    ELSE LET e == Head(elems) IN
         IF e = <<".">> THEN RootWalk(Tail(elems), at)
         ELSE IF e = <<".", ".">>
              THEN (IF at = <<>> THEN <<>>
                    ELSE RootWalk(Tail(elems), SubSeq(at, 1, Len(at) - 1)))
              ELSE RootWalk(Tail(elems), Append(at, e))

secureRootResolve(name) ==
    IF name = <<>> \/ IsAbs(name) THEN <<>>
    ELSE LET w == RootWalk(Elements(name), <<>>) IN
         IF w = <<>> THEN <<>>
         ELSE RootedString(Elements(gitRoot) \o w[1])

\* A plain os.ReadFile(name): relative names resolve from the process's
\* working directory, here the repository root.
CwdResolve(name) ==
    IF name = <<>> THEN <<>>
    ELSE IF IsAbs(name) THEN Abs(name)
    ELSE Join(gitRoot, name)

\* The file at a resolved location can be opened (it exists, as a file).
CanOpen(d, loc) == loc \in FileLocs /\ d[loc].exists

IdleReq ==
    [op |-> "idle", pc |-> "idle", diffID |-> "none", filePath |-> <<>>,
     content |-> <<>>, verr |-> "none", status |-> 0, handle |-> <<>>,
     opened |-> {}, reached |-> {}, mutated |-> FALSE, undisturbed |-> FALSE,
     oldContent |-> <<>>, newContent |-> <<>>]

InitFiles ==
    /\ disk = InitDisk
    /\ req = [c \in Clients |-> IdleReq]

\* The wildcard parameter of the route, as gin hands it over: it starts
\* with the slash that follows the diff id.
RawParams ==
    {<<"/", "f">>, <<"/", "m">>, <<"/", "u">>, <<"/">>,
     <<"/", ".", ".", "/", "x">>, <<"/", "/", "x">>}

\* The bodies saved: runs of one letter, up to the longest length.
Contents == {[i \in 1..k |-> ch] : k \in 0..MaxContentLen, ch \in {"a", "b"}}

DiffIds == {"working", "c3"}

\* Another request changed the file at loc: the saves of the other clients
\* on that file are no longer the last to have touched it.
Disturb(rq, c, loc) ==
    [q \in Clients |->
        IF q # c /\ rq[q].handle = loc
        THEN [rq[q] EXCEPT !.undisturbed = FALSE] ELSE rq[q]]

\* Mutant: saveFile going on to open the file when validation failed.
SaveStart_ignoreValidation(c) ==
    /\ req[c].pc = "idle"
    /\ \E param \in RawParams, body \in Contents \cup {<<"bad json">>} :
        LET filePath == TrimPrefixSlash(param)
            err == validateRepoPath(filePath, LsFilesMatches(filePath))
            r0 == [IdleReq EXCEPT !.op = "save", !.filePath = filePath]
        IN req' = [req EXCEPT ![c] =
                IF body = <<"bad json">>
                THEN [r0 EXCEPT !.pc = "done", !.status = 400]
                ELSE [r0 EXCEPT !.pc = "open", !.content = body, !.verr = err]]
    /\ UNCHANGED <<disk, valVars, amendVars, listVars,
                 mainVars, clientVars>>

\* saveFile up to the call of OpenFile: the body is bound (400 when it is
\* not JSON) and the path validated (403 when validation fails).
SaveStart(c) ==
    /\ req[c].pc = "idle"
    /\ \E param \in RawParams, body \in Contents \cup {<<"bad json">>} :
        LET filePath == TrimPrefixSlash(param)
            err == validateRepoPath(filePath, LsFilesMatches(filePath))
            r0 == [IdleReq EXCEPT !.op = "save", !.filePath = filePath]
        IN req' = [req EXCEPT ![c] =
                IF body = <<"bad json">>
                THEN [r0 EXCEPT !.pc = "done", !.status = 400]
                ELSE IF err # ErrNone
                THEN [r0 EXCEPT !.pc = "done", !.status = 403, !.verr = err]
                ELSE [r0 EXCEPT !.pc = "open", !.content = body, !.verr = err]]
    /\ UNCHANGED <<disk, valVars, amendVars, listVars,
                 mainVars, clientVars>>

\* Mutant: the file opened without O_TRUNC.
SaveOpen_noTrunc(c) ==
    /\ req[c].pc = "open"
    /\ LET loc == secureRootResolve(req[c].filePath)
           r1 == [req[c] EXCEPT !.opened = @ \cup {req[c].filePath}]
       IN IF loc # <<>> /\ CanOpen(disk, loc)
          THEN /\ disk' = disk
               /\ req' = [Disturb(req, c, loc) EXCEPT ![c] =
                    [r1 EXCEPT !.pc = "write", !.handle = loc,
                               !.reached = @ \cup {loc}, !.mutated = TRUE,
                               !.undisturbed = TRUE]]
          ELSE /\ req' = [req EXCEPT ![c] = [r1 EXCEPT !.pc = "done", !.status = 500]]
               /\ UNCHANGED disk
    /\ UNCHANGED <<valVars, amendVars, listVars,
                 mainVars, clientVars>>

\* Mutant: the file opened with O_CREATE as well, a missing one created.
SaveOpen_create(c) ==
    /\ req[c].pc = "open"
    /\ LET loc == secureRootResolve(req[c].filePath)
           r1 == [req[c] EXCEPT !.opened = @ \cup {req[c].filePath}]
       IN IF loc \in FileLocs
          THEN /\ disk' = [disk EXCEPT ![loc] = [exists |-> TRUE, data |-> <<>>]]
               /\ req' = [Disturb(req, c, loc) EXCEPT ![c] =
                    [r1 EXCEPT !.pc = "write", !.handle = loc,
                               !.reached = @ \cup {loc}, !.mutated = TRUE,
                               !.undisturbed = TRUE]]
          ELSE /\ req' = [req EXCEPT ![c] = [r1 EXCEPT !.pc = "done", !.status = 500]]
               /\ UNCHANGED disk
    /\ UNCHANGED <<valVars, amendVars, listVars,
                 mainVars, clientVars>>

\* secureRoot.OpenFile(filePath, O_WRONLY|O_TRUNC): the file is emptied when
\* the open succeeds; 500 when it fails (no O_CREATE: a missing file fails).
SaveOpen(c) ==
    /\ req[c].pc = "open"
    /\ LET loc == secureRootResolve(req[c].filePath)
           r1 == [req[c] EXCEPT !.opened = @ \cup {req[c].filePath}]
       IN IF loc # <<>> /\ CanOpen(disk, loc)
          THEN /\ disk' = [disk EXCEPT ![loc].data = <<>>]
               /\ req' = [Disturb(req, c, loc) EXCEPT ![c] =
                    [r1 EXCEPT !.pc = "write", !.handle = loc,
                               !.reached = @ \cup {loc}, !.mutated = TRUE,
                               !.undisturbed = TRUE]]
          ELSE /\ req' = [req EXCEPT ![c] = [r1 EXCEPT !.pc = "done", !.status = 500]]
               /\ UNCHANGED disk
    /\ UNCHANGED <<valVars, amendVars, listVars,
                 mainVars, clientVars>>

\* The bytes of a file after n bytes of buf were written at offset 0 of a
\* handle that was not opened for appending.
WriteAt0(old, buf, n) ==
    SubSeq(buf, 1, n) \o SubSeq(old, n + 1, Len(old))

\* file.Write(content): all bytes written and 200, or an error after fewer
\* bytes (a full disk, an I/O error) and 500.
SaveWrite(c) ==
    /\ req[c].pc = "write"
    /\ LET loc == req[c].handle
           buf == req[c].content
       IN \E n \in 0..Len(buf) :
            /\ disk' = [disk EXCEPT ![loc].data = WriteAt0(@, buf, n)]
            /\ req' = [Disturb(req, c, loc) EXCEPT ![c] =
                  [req[c] EXCEPT !.pc = "done",
                                 !.status = IF n = Len(buf) THEN 200 ELSE 500]]
    /\ UNCHANGED <<valVars, amendVars, listVars,
                 mainVars, clientVars>>

\* The reply of getFileDiff for a request: the old blob from git, the new
\* content read through the rooted handle ("" when the open fails).
FileDiffOf(d, diffID, filePath) ==
    LET loc == secureRootResolve(filePath) IN
    [oldContent |-> GitShow(IF diffID = "working" THEN "HEAD" ELSE "parent", filePath),
     newContent |-> IF loc # <<>> /\ CanOpen(d, loc) THEN d[loc].data ELSE <<>>,
     reached |-> IF loc # <<>> /\ CanOpen(d, loc) THEN {loc} ELSE {}]

\* Mutant: getFileDiff answering 404 for a file it cannot open.
GetFileDiff_notFound(c) ==
    /\ req[c].pc = "idle"
    /\ \E param \in RawParams, diffID \in DiffIds :
        LET filePath == TrimPrefixSlash(param)
            fd == FileDiffOf(disk, diffID, filePath)
        IN req' = [req EXCEPT ![c] =
                [IdleReq EXCEPT !.op = "read", !.pc = "done", !.diffID = diffID,
                                !.filePath = filePath,
                                !.status = IF fd.reached = {} THEN 404 ELSE 200,
                                !.opened = {filePath}, !.reached = fd.reached,
                                !.oldContent = fd.oldContent,
                                !.newContent = fd.newContent]]
    /\ UNCHANGED <<disk, valVars, amendVars, listVars,
                 mainVars, clientVars>>

\* getFileDiff, reading the working tree through secureRoot.
GetFileDiff(c) ==
    /\ req[c].pc = "idle"
    /\ \E param \in RawParams, diffID \in DiffIds :
        LET filePath == TrimPrefixSlash(param)
            fd == FileDiffOf(disk, diffID, filePath)
        IN req' = [req EXCEPT ![c] =
                [IdleReq EXCEPT !.op = "read", !.pc = "done", !.diffID = diffID,
                                !.filePath = filePath, !.status = 200,
                                !.opened = {filePath}, !.reached = fd.reached,
                                !.oldContent = fd.oldContent,
                                !.newContent = fd.newContent]]
    /\ UNCHANGED <<disk, valVars, amendVars, listVars,
                 mainVars, clientVars>>

\* getFileDiff as main.go has it, reading the working tree with a plain
\* os.ReadFile of the request's path.
GetFileDiffReadFile(c) ==
    /\ req[c].pc = "idle"
    /\ \E param \in RawParams, diffID \in DiffIds :
        LET filePath == TrimPrefixSlash(param)
            loc == CwdResolve(filePath)
            ok == loc # <<>> /\ CanOpen(disk, loc)
        IN req' = [req EXCEPT ![c] =
                [IdleReq EXCEPT !.op = "read", !.pc = "done", !.diffID = diffID,
                                !.filePath = filePath, !.status = 200,
                                !.opened = {filePath},
                                !.reached = IF ok THEN {loc} ELSE {},
                                !.oldContent =
                                    GitShow(IF diffID = "working" THEN "HEAD" ELSE "parent",
                                            filePath),
                                !.newContent = IF ok THEN disk[loc].data ELSE <<>>]]
    /\ UNCHANGED <<disk, valVars, amendVars, listVars,
                 mainVars, clientVars>>

\* The response is sent and the handler returns.
Respond(c) ==
    /\ req[c].pc = "done"
    /\ req' = [req EXCEPT ![c] = IdleReq]
    /\ UNCHANGED <<disk, valVars, amendVars, listVars,
                 mainVars, clientVars>>

\* -------------------------------------------------------------- commits
\* A commit of the branch tip.  Its hash is the hash of its content, so the
\* model identifies the commit, and its hash, with what git hashes: the
\* message and the committer's time stamp (tree, parent and author are the
\* same for every commit an amend of the tip can produce).
Commit(msg, time) == [msg |-> msg, time |-> time]

\* The tip when the service starts, and its parent.
InitHead == Commit(<<"a">>, 0)
ParentCommit == Commit(<<"p">>, 0)
\* The empty output of a `git rev-parse HEAD` that failed.
NoHash == Commit(<<>>, 0 - 1)

\* The lines of a message.
RECURSIVE SplitLines(_, _, _)
SplitLines(s, cur, acc) ==
    IF s = <<>> THEN Append(acc, cur)
    ELSE IF Head(s) = "\n" THEN SplitLines(Tail(s), <<>>, Append(acc, cur))
    ELSE SplitLines(Tail(s), Append(cur, Head(s)), acc)

RECURSIVE DropLeadingEmpty(_)
DropLeadingEmpty(ls) ==
    IF ls # <<>> /\ Head(ls) = <<>> THEN DropLeadingEmpty(Tail(ls)) ELSE ls

RECURSIVE DropTrailingEmpty(_)
DropTrailingEmpty(ls) ==
    IF ls # <<>> /\ ls[Len(ls)] = <<>>
    THEN DropTrailingEmpty(SubSeq(ls, 1, Len(ls) - 1)) ELSE ls

RECURSIVE CollapseEmpty(_)
CollapseEmpty(ls) ==
    IF Len(ls) < 2 THEN ls
    ELSE IF ls[1] = <<>> /\ ls[2] = <<>> THEN CollapseEmpty(Tail(ls))
    ELSE <<ls[1]>> \o CollapseEmpty(Tail(ls))

RECURSIVE JoinLines(_, _)
JoinLines(ls, sep) ==
    IF ls = <<>> THEN <<>>
    ELSE IF Len(ls) = 1 THEN ls[1]
    ELSE ls[1] \o sep \o JoinLines(Tail(ls), sep)

\* The message `git commit -m <msg>` stores: trailing whitespace is removed
\* from every line, empty lines are removed at both ends and runs of them
\* collapsed (the final newline git adds is left out).
GitCleanup(msg) ==
    LET ls == SplitLines(msg, <<>>, <<>>)
        stripped == [i \in 1..Len(ls) |-> TrimRight(ls[i])]
    IN JoinLines(CollapseEmpty(DropTrailingEmpty(DropLeadingEmpty(stripped))), <<"\n">>)

RECURSIVE FirstParagraph(_)
FirstParagraph(ls) ==
    IF ls = <<>> \/ Head(ls) = <<>> THEN <<>>
    ELSE <<Head(ls)>> \o FirstParagraph(Tail(ls))

\* The subject `git log --pretty=format:%s` prints for a stored message:
\* the lines of its first paragraph, joined by spaces.
Subject(stored) == JoinLines(FirstParagraph(SplitLines(stored, <<>>, <<>>)), <<" ">>)

\* The message of the request body: the JSON "message" field.
Messages ==
    {<<>>, <<" ">>, <<"a">>, <<"b">>, <<"b", " ">>}

IdleAmend ==
    [pc |-> "idle", commitID |-> NoHash, message |-> <<>>, headHash |-> NoHash,
     isPushed |-> FALSE, status |-> 0, error |-> "", newCommit |-> NoHash,
     warning |-> FALSE, cmds |-> {}, created |-> NoHash, clean |-> FALSE,
     detail |-> FALSE]

InitAmend ==
    /\ head = InitHead
    /\ remote \in {{}, {ParentCommit, InitHead}}
    /\ now = 0
    /\ areq = [c \in Clients |-> IdleAmend]

\* A second passes.
Tick ==
    /\ now < MaxTime
    /\ now' = now + 1
    /\ UNCHANGED <<head, remote, areq, valVars, fileVars, listVars,
                 mainVars, clientVars>>

\* Mutant: the check for a blank message left out.
AmendStart_noBlankCheck(c) ==
    /\ areq[c].pc = "idle"
    /\ \E commitID \in {head, ParentCommit}, body \in Messages \cup {<<"bad json">>} :
        LET r0 == [IdleAmend EXCEPT !.commitID = commitID] IN
        areq' = [areq EXCEPT ![c] =
            IF body = <<"bad json">>
            THEN [r0 EXCEPT !.pc = "done", !.status = 400, !.error = "Invalid request"]
            ELSE [r0 EXCEPT !.pc = "revparse", !.message = body]]
    /\ UNCHANGED <<head, remote, now, valVars, fileVars, listVars,
                 mainVars, clientVars>>

\* Mutant: a message that is not blank amended without resolving HEAD.
AmendStart_skipValidating(c) ==
    /\ areq[c].pc = "idle"
    /\ \E commitID \in {head, ParentCommit}, body \in Messages \cup {<<"bad json">>} :
        LET r0 == [IdleAmend EXCEPT !.commitID = commitID] IN
        areq' = [areq EXCEPT ![c] =
            IF body = <<"bad json">>
            THEN [r0 EXCEPT !.pc = "done", !.status = 400, !.error = "Invalid request"]
            ELSE IF TrimSpace(body) = <<>>
            THEN [r0 EXCEPT !.pc = "done", !.status = 400, !.message = body,
                            !.error = "Commit message cannot be empty"]
            ELSE [r0 EXCEPT !.pc = "check", !.message = body, !.headHash = commitID]]
    /\ UNCHANGED <<head, remote, now, valVars, fileVars, listVars,
                 mainVars, clientVars>>

\* amendCommitMessage up to the first git call: the body is bound and the
\* message checked for being blank.
AmendStart(c) ==
    /\ areq[c].pc = "idle"
    /\ \E commitID \in {head, ParentCommit}, body \in Messages \cup {<<"bad json">>} :
        LET r0 == [IdleAmend EXCEPT !.commitID = commitID] IN
        areq' = [areq EXCEPT ![c] =
            IF body = <<"bad json">>
            THEN [r0 EXCEPT !.pc = "done", !.status = 400, !.error = "Invalid request"]
            ELSE IF TrimSpace(body) = <<>>
            THEN [r0 EXCEPT !.pc = "done", !.status = 400, !.message = body,
                            !.error = "Commit message cannot be empty"]
            ELSE [r0 EXCEPT !.pc = "revparse", !.message = body]]
    /\ UNCHANGED <<head, remote, now, valVars, fileVars, listVars,
                 mainVars, clientVars>>

\* Mutant: the comparison of the request's id with HEAD left out.
AmendRevParse_noCompare(c) ==
    /\ areq[c].pc = "revparse"
    /\ \E ok \in BOOLEAN :
        LET r1 == [areq[c] EXCEPT !.cmds = @ \cup {"rev-parse HEAD"}] IN
        areq' = [areq EXCEPT ![c] =
            IF ~ok
            THEN [r1 EXCEPT !.pc = "done", !.status = 500, !.error = "Failed to get HEAD"]
            ELSE [r1 EXCEPT !.pc = "check", !.headHash = head]]
    /\ UNCHANGED <<head, remote, now, valVars, fileVars, listVars,
                 mainVars, clientVars>>

\* `git rev-parse HEAD` and the comparison with the id of the request.
AmendRevParse(c) ==
    /\ areq[c].pc = "revparse"
    /\ \E ok \in BOOLEAN :
        LET r1 == [areq[c] EXCEPT !.cmds = @ \cup {"rev-parse HEAD"}] IN
        areq' = [areq EXCEPT ![c] =
            IF ~ok
            THEN [r1 EXCEPT !.pc = "done", !.status = 500, !.error = "Failed to get HEAD"]
            ELSE IF r1.commitID # head
            THEN [r1 EXCEPT !.pc = "done", !.status = 403, !.headHash = head,
                            !.error = "Can only amend the HEAD commit"]
            ELSE [r1 EXCEPT !.pc = "check", !.headHash = head]]
    /\ UNCHANGED <<head, remote, now, valVars, fileVars, listVars,
                 mainVars, clientVars>>

\* Mutant: a pushed commit refused instead of warned about.
AmendCheckPushed_blocking(c) ==
    /\ areq[c].pc = "check"
    /\ \E ok \in BOOLEAN :
        LET pushed == ok /\ areq[c].headHash \in remote
            r1 == [areq[c] EXCEPT !.cmds = @ \cup {"branch -r --contains"},
                                  !.isPushed = pushed]
        IN areq' = [areq EXCEPT ![c] =
               IF pushed
               THEN [r1 EXCEPT !.pc = "done", !.status = 403]
               ELSE [r1 EXCEPT !.pc = "amend"]]
    /\ UNCHANGED <<head, remote, now, valVars, fileVars, listVars,
                 mainVars, clientVars>>

\* `git branch -r --contains headHash`: pushed when the command succeeds
\* and prints a branch.
AmendCheckPushed(c) ==
    /\ areq[c].pc = "check"
    /\ \E ok \in BOOLEAN :
        areq' = [areq EXCEPT ![c] =
            [areq[c] EXCEPT !.pc = "amend", !.cmds = @ \cup {"branch -r --contains"},
                            !.isPushed = ok /\ areq[c].headHash \in remote]]
    /\ UNCHANGED <<head, remote, now, valVars, fileVars, listVars,
                 mainVars, clientVars>>

\* The other requests whose own amend is no longer the last one.
Unclean(rq, c) ==
    [q \in Clients |-> IF q # c THEN [rq[q] EXCEPT !.clean = FALSE] ELSE rq[q]]

\* Mutant: a failed amend run again instead of answered.
AmendCommit_retry(c) ==
    /\ areq[c].pc = "amend"
    /\ \E ok \in BOOLEAN :
        LET r1 == [areq[c] EXCEPT !.cmds = @ \cup {"commit --amend"}]
            new == Commit(GitCleanup(areq[c].message), now)
        IN IF ok /\ new.msg # <<>>
           THEN /\ head' = new
                /\ areq' = [Unclean(areq, c) EXCEPT ![c] =
                      [r1 EXCEPT !.pc = "newhead", !.created = new, !.clean = TRUE]]
           ELSE /\ areq' = [areq EXCEPT ![c] = r1]
                /\ UNCHANGED head
    /\ UNCHANGED <<remote, now, valVars, fileVars, listVars,
                 mainVars, clientVars>>

\* `git commit --amend -m message`: git replaces the tip, whatever it is
\* now, by a commit with the cleaned-up message and the current time; 500
\* with git's output when the command fails.
AmendCommit(c) ==
    /\ areq[c].pc = "amend"
    /\ \E ok \in BOOLEAN :
        LET r1 == [areq[c] EXCEPT !.cmds = @ \cup {"commit --amend"}]
            new == Commit(GitCleanup(areq[c].message), now)
        IN IF ok /\ new.msg # <<>>
           THEN /\ head' = new
                /\ areq' = [Unclean(areq, c) EXCEPT ![c] =
                      [r1 EXCEPT !.pc = "newhead", !.created = new, !.clean = TRUE]]
           ELSE /\ areq' = [areq EXCEPT ![c] =
                      [r1 EXCEPT !.pc = "done", !.status = 500, !.detail = TRUE,
                                 !.error = "Failed to amend commit"]]
                /\ UNCHANGED head
    /\ UNCHANGED <<remote, now, valVars, fileVars, listVars,
                 mainVars, clientVars>>

\* Mutant: the reply carrying the hash read before the amend.
AmendNewHead_oldHash(c) ==
    /\ areq[c].pc = "newhead"
    /\ \E ok \in BOOLEAN :
        areq' = [areq EXCEPT ![c] =
            [areq[c] EXCEPT !.pc = "done", !.status = 200,
                            !.cmds = @ \cup {"rev-parse HEAD (new)"},
                            !.newCommit = IF ok THEN areq[c].headHash ELSE NoHash,
                            !.warning = areq[c].isPushed]]
    /\ UNCHANGED <<head, remote, now, valVars, fileVars, listVars,
                 mainVars, clientVars>>

\* The second `git rev-parse HEAD`, whose error is discarded, and the reply.
AmendNewHead(c) ==
    /\ areq[c].pc = "newhead"
    /\ \E ok \in BOOLEAN :
        areq' = [areq EXCEPT ![c] =
            [areq[c] EXCEPT !.pc = "done", !.status = 200,
                            !.cmds = @ \cup {"rev-parse HEAD (new)"},
                            !.newCommit = IF ok THEN head ELSE NoHash,
                            !.warning = areq[c].isPushed]]
    /\ UNCHANGED <<head, remote, now, valVars, fileVars, listVars,
                 mainVars, clientVars>>

\* The response is sent and the handler returns.
AmendRespond(c) ==
    /\ areq[c].pc = "done"
    /\ areq' = [areq EXCEPT ![c] = IdleAmend]
    /\ UNCHANGED <<head, remote, now, valVars, fileVars, listVars,
                 mainVars, clientVars>>

\* ------------------------------------------------------------- history
\* The i-th ancestor of the tip: its parent for i = 1, the root commit of
\* the repository for i = anc, each committed a second before its child.
\* An amend replaces the tip and keeps them.
Ancestor(i) == Commit(<<"p">>, 1 - i)

\* The commits reachable from tip h over n ancestors, as `git log` lists
\* them: most recent first.
LogOrder(h, n) == <<h>> \o [i \in 1..n |-> Ancestor(i)]

\* The depths of history drawn: a single commit, C1 -> C2 -> C3, and more
\* commits than `git log -20` prints.
HistoryDepths == {0, 2, MaxAncestors}

\* The count of `git log -20`.
LogLimit == 20

\* The hexadecimal digit standing for a character that git hashed.
HexOf(ch) ==
    CASE ch = "a" -> "a" [] ch = "b" -> "b" [] ch = "p" -> "c"
      [] ch = " " -> "d" [] ch = "\n" -> "e" [] OTHER -> "f"

\* The hash of a commit as text (%H, `git rev-parse`): hexadecimal digits,
\* different for different commits.
HashText(c) ==
    [i \in 1..Len(c.msg) |-> HexOf(c.msg[i])]
    \o (IF c.time < 0 THEN <<"0">> \o Itoa(0 - c.time) ELSE Itoa(c.time))

\* The separator byte %x00 of the log format.
NUL == "\\x00"

\* The author of every commit of the fixture (%an) and the second they were
\* authored at (%at); an amend keeps both.
AuthorName == <<"T", " ", "U">>
AuthorTime == 1

\* One commit in the format %H%x00%s%x00%an%x00%at.
LogLine(c) ==
    HashText(c) \o <<NUL>> \o Subject(c.msg) \o <<NUL>> \o AuthorName
    \o <<NUL>> \o Itoa(AuthorTime)

\* The output of `git log --pretty=format:...` for a list of commits: the
\* lines separated by newlines, none after the last.
GitLogOutput(commits) == JoinLines([i \in 1..Len(commits) |-> LogLine(commits[i])], <<"\n">>)

\* Mutant: the log asked for without a count.
LogWindow_unlimited(h, n, k) == LogOrder(h, n)

\* The commits `git log -k` lists from tip h.
LogWindow(h, n, k) == SubSeq(LogOrder(h, n), 1, IF n + 1 < k THEN n + 1 ELSE k)

\* The commit a revision text names, among the tip, its ancestors and the
\* tip the repository started with (still in the object store after an
\* amend); <<>> when it names none.
ResolveRev(text, h, n) ==
    LET known == {h, InitHead} \cup {Ancestor(i) : i \in 1..n}
        hits == {c \in known : HashText(c) = text}
    IN IF hits = {} THEN <<>> ELSE <<CHOOSE c \in hits : TRUE>>

\* The number of ancestors of a resolved commit: the tip and the starting tip
\* have the same parent.
AncestorsOf(c, n) ==
    IF \E i \in 1..n : Ancestor(i) = c
    THEN n - (CHOOSE i \in 1..n : Ancestor(i) = c)
    ELSE n

\* The commits `git log <rev>^..HEAD` lists: those reachable from the tip
\* and not from the parent of rev; <<>> wrapped as failure when rev or its
\* parent does not resolve.
LogRange(text, h, n) ==
    LET r == ResolveRev(text, h, n) IN
    IF r = <<>> \/ AncestorsOf(r[1], n) = 0 THEN [ok |-> FALSE, commits |-> <<>>]
    ELSE [ok |-> TRUE,
          commits |-> SubSeq(LogOrder(h, n), 1, n + 1 - AncestorsOf(r[1], n))]

\* ------------------------------------------------------------ list handlers
\* The list request in flight, none when idle: the handler (op), where it
\* stands (pc), the diff id of the route, the answer (status, body), and for
\* the checks what git reported to it: the HEAD hash read, the tip and the
\* commits of the log, the files of the diff and the stat commands that
\* failed.
IdleList ==
    [op |-> "idle", pc |-> "idle", diffID |-> <<>>, status |-> 0, body |-> <<>>,
     headHash |-> <<>>, tip |-> NoHash, logged |-> <<>>, logOk |-> FALSE,
     fallback |-> FALSE, working |-> <<>>, workingOk |-> FALSE, failAt |-> 0,
     changes |-> <<>>, base |-> <<>>, cmdOk |-> FALSE]

\* The files `git diff <c>^ <c> --numstat` counts for a commit of the
\* fixture.
CommitStat(c) ==
    IF c.msg = <<"p">> THEN <<[additions |-> 2, deletions |-> 0, binary |-> FALSE, path |-> <<"f">>],
                              [additions |-> 0, deletions |-> 0, binary |-> TRUE, path |-> <<"a", " ", "b">>]>>
    ELSE <<[additions |-> 3, deletions |-> 1, binary |-> FALSE, path |-> <<"f">>]>>

\* The output of the stat command of getDiffs for each commit of the log:
\* empty when the command fails, as it does for the root commit, which has
\* no parent, and for the commit at position failAt.
StatOutputs(commits, n, failAt) ==
    [t \in {HashText(commits[i]) : i \in 1..Len(commits)} |->
        LET i == CHOOSE j \in 1..Len(commits) : HashText(commits[j]) = t IN
        IF i = failAt \/ i = n + 1 THEN <<>>
        ELSE NumstatOutput(CommitStat(commits[i]))]

\* The uncommitted changes of the working tree drawn for `git diff HEAD
\* --numstat`.
WorkingChanges ==
    {<<>>,
     <<[additions |-> 3, deletions |-> 1, binary |-> FALSE, path |-> <<"f">>]>>,
     <<[additions |-> 3, deletions |-> 1, binary |-> FALSE, path |-> <<"f">>],
       [additions |-> 0, deletions |-> 0, binary |-> TRUE, path |-> <<"a", " ", "b">>]>>}

\* The diff id of the working changes, and their message.
WorkingID == <<"w", "o", "r", "k", "i", "n", "g">>
WorkingMessage ==
    <<"W", "o", "r", "k", "i", "n", "g", " ", "C", "h", "a", "n", "g", "e", "s">>

\* Mutant: the working entry named after the revision it is compared with.
WorkingEntry_head(statOutput) ==
    LET st == parseDiffStat(statOutput) IN
    [ID |-> <<"H", "E", "A", "D">>, Message |-> WorkingMessage,
     Author |-> <<>>, Timestamp |-> now,
     FilesCount |-> st.filesCount, Additions |-> st.additions, Deletions |-> st.deletions]

\* The entry of getDiffs for the working changes.
WorkingEntry(statOutput) ==
    LET st == parseDiffStat(statOutput) IN
    [ID |-> WorkingID, Message |-> WorkingMessage,
     Author |-> <<>>, Timestamp |-> now,
     FilesCount |-> st.filesCount, Additions |-> st.additions, Deletions |-> st.deletions]

\* Mutant: the loop ended at the first commit whose stat command printed
\* nothing.
RECURSIVE DiffInfos_stopOnNoStat(_, _)
DiffInfos_stopOnNoStat(lines, stats) ==
    IF lines = <<>> THEN <<>>
    ELSE LET line == Head(lines)
             parts == Split(line, NUL)
         IN IF line = <<>> \/ Len(parts) < 4 THEN DiffInfos_stopOnNoStat(Tail(lines), stats)
            ELSE IF stats[parts[1]] = <<>> THEN <<>>
            ELSE LET st == parseDiffStat(stats[parts[1]]) IN
                 <<[ID |-> parts[1], Message |-> parts[2], Author |-> parts[3],
                    Timestamp |-> Atoi(parts[4]),
                    FilesCount |-> st.filesCount, Additions |-> st.additions,
                    Deletions |-> st.deletions]>>
                 \o DiffInfos_stopOnNoStat(Tail(lines), stats)

\* The loop of getDiffs over the lines of the log: one entry per line of
\* four fields, with the totals of that commit's stat output.
RECURSIVE DiffInfos(_, _)
DiffInfos(lines, stats) ==
    IF lines = <<>> THEN <<>>
    ELSE LET line == Head(lines)
             parts == Split(line, NUL)
         IN IF line = <<>> \/ Len(parts) < 4 THEN DiffInfos(Tail(lines), stats)
            ELSE LET st == parseDiffStat(stats[parts[1]]) IN
                 <<[ID |-> parts[1], Message |-> parts[2], Author |-> parts[3],
                    Timestamp |-> Atoi(parts[4]),
                    FilesCount |-> st.filesCount, Additions |-> st.additions,
                    Deletions |-> st.deletions]>>
                 \o DiffInfos(Tail(lines), stats)

\* getDiffs: the working entry from `git diff HEAD --numstat` (its failure
\* discarded), then `git log -20`, 500 when it fails, and one entry per
\* commit with the totals of `git diff <c>^ <c> --numstat` (its failure
\* discarded).
GetDiffs ==
    /\ lreq.pc = "idle"
    /\ \E wc \in WorkingChanges, wok \in BOOLEAN, lok \in BOOLEAN, failAt \in 0..(anc + 1) :
        LET window == LogWindow(head, anc, LogLimit)
            first == WorkingEntry(IF wok THEN NumstatOutput(wc) ELSE <<>>)
            r0 == [IdleList EXCEPT !.op = "diffs", !.pc = "done", !.tip = head,
                                   !.working = wc, !.workingOk = wok, !.logOk = lok]
        IN /\ failAt <= Len(window)
           /\ lreq' =
                IF ~lok THEN [r0 EXCEPT !.status = 500]
                ELSE [r0 EXCEPT !.status = 200, !.logged = window, !.failAt = failAt,
                                !.body = <<first>>
                                    \o DiffInfos(Split(TrimSpace(GitLogOutput(window)), "\n"),
                                                 StatOutputs(window, anc, failAt))]
    /\ UNCHANGED <<statLines, statResult, anc, valVars, fileVars, amendVars,
                 mainVars, clientVars>>

\* The revision texts a client sends as diff id: "working", the hashes of the
\* tip, of its parent and of the root commit, the hash of the starting tip,
\* and a text that is no hash.
DiffIdTexts(h, n) ==
    {WorkingID, <<"z">>, HashText(h), HashText(InitHead)}
    \cup {HashText(Ancestor(i)) : i \in {1, n} \cap 1..n}

\* getDiffCommits up to the log: `git rev-parse HEAD`, trimmed; 500 when it
\* fails.
GetDiffCommitsRevParse ==
    /\ lreq.pc = "idle"
    /\ \E diffID \in DiffIdTexts(head, anc), ok \in BOOLEAN :
        LET r0 == [IdleList EXCEPT !.op = "commits", !.diffID = diffID] IN
        lreq' = IF ~ok THEN [r0 EXCEPT !.pc = "done", !.status = 500]
                ELSE [r0 EXCEPT !.pc = "log",
                                !.headHash = TrimSpace(HashText(head) \o <<"\n">>)]
    /\ UNCHANGED <<statLines, statResult, anc, valVars, fileVars, amendVars,
                 mainVars, clientVars>>

\* The loop of getDiffCommits over the lines of the log.
RECURSIVE CommitInfos(_, _)
CommitInfos(lines, headHash) ==
    IF lines = <<>> THEN <<>>
    ELSE LET line == Head(lines)
             parts == Split(line, NUL)
         IN IF line = <<>> \/ Len(parts) < 4 THEN CommitInfos(Tail(lines), headHash)
            ELSE <<[ID |-> parts[1], Message |-> parts[2], Author |-> parts[3],
                    Timestamp |-> Atoi(parts[4]), IsHead |-> parts[1] = headHash]>>
                 \o CommitInfos(Tail(lines), headHash)

\* The log command of getDiffCommits: `git log -20` for "working" and
\* `git log <diffID>^..HEAD` for a commit id.
GitLogFor(diffID, h, n, ok) ==
    IF ~ok THEN [ok |-> FALSE, commits |-> <<>>]
    ELSE IF diffID = WorkingID THEN [ok |-> TRUE, commits |-> LogWindow(h, n, LogLimit)]
    ELSE LogRange(diffID, h, n)

\* getDiffCommits from the log on: when the log fails `git log -1` is run
\* instead, 500 when that fails too; IsHead marks the records whose hash is
\* the HEAD hash read before.
GetDiffCommitsLog ==
    /\ lreq.pc = "log"
    /\ \E ok \in BOOLEAN, ok1 \in BOOLEAN :
        LET log == GitLogFor(lreq.diffID, head, anc, ok)
            commits == IF log.ok THEN log.commits ELSE LogWindow(head, anc, 1)
            r1 == [lreq EXCEPT !.pc = "done", !.tip = head, !.logOk = log.ok,
                               !.fallback = ~log.ok]
        IN lreq' =
            IF ~log.ok /\ ~ok1 THEN [r1 EXCEPT !.status = 500]
            ELSE [r1 EXCEPT !.status = 200, !.logged = commits,
                            !.body = CommitInfos(Split(TrimSpace(GitLogOutput(commits)), "\n"),
                                                 lreq.headHash)]
    /\ UNCHANGED <<statLines, statResult, anc, valVars, fileVars, amendVars,
                 mainVars, clientVars>>

\* The characters of the model's paths in ascending byte order, and the
\* comparison of two strings byte by byte (Go's < on strings).
ByteOrder == <<" ", "a", "b", "c", "f", "g", "h">>
Ord(c) == CHOOSE i \in 1..Len(ByteOrder) : ByteOrder[i] = c

RECURSIVE StrLess(_, _)
StrLess(a, b) ==
    IF b = <<>> THEN FALSE
    ELSE IF a = <<>> THEN TRUE
    ELSE IF Head(a) = Head(b) THEN StrLess(Tail(a), Tail(b))
    ELSE Ord(Head(a)) < Ord(Head(b))

\* One changed file of a diff as git reports it: the status code, the path
\* (the old one of a rename, whose new one is newPath) and the line counts
\* of the per-path numstat.
FileChange(code, path, newPath, additions, deletions) ==
    [code |-> code, path |-> path, newPath |-> newPath,
     additions |-> additions, deletions |-> deletions, binary |-> FALSE]

FileChanges ==
    {FileChange(<<"M">>, <<"f">>, <<>>, 3, 1),
     FileChange(<<"A">>, <<"g">>, <<>>, 2, 0),
     FileChange(<<"D">>, <<"b">>, <<>>, 0, 12),
     FileChange(<<"R", "1", "0", "0">>, <<"c">>, <<"h">>, 0, 0),
     FileChange(<<"T">>, <<"a">>, <<>>, 2, 1),
     FileChange(<<"A">>, <<"a", " ", "b">>, <<>>, 3, 0)}

\* The lists of changed files drawn, in any order.
ChangeLists ==
    {cs \in UNION {[1..k -> FileChanges] : k \in 0..MaxFiles} :
        \A i, j \in 1..Len(cs) : i # j => cs[i] # cs[j]}

\* A line of `git diff --name-status`: the code and the paths, separated by
\* tabs.
NameStatusLine(e) ==
    e.code \o <<"\t">> \o e.path
    \o (IF e.newPath = <<>> THEN <<>> ELSE <<"\t">> \o e.newPath)

RECURSIVE NameStatusOutput(_)
NameStatusOutput(cs) ==
    IF cs = <<>> THEN <<>>
    ELSE NameStatusLine(Head(cs)) \o <<"\n">> \o NameStatusOutput(Tail(cs))

\* The output of `git diff <base> --numstat -- <pathspec>`: the numstat
\* lines of the changed files the pathspec names; empty when the command
\* fails.
PerPathStat(cs, pathspec, ok) ==
    IF ~ok THEN <<>>
    ELSE NumstatOutput(SelectSeq(cs, LAMBDA e : e.path = pathspec))

\* The status of getDiffFiles for a code of git.
StatusOf(code) ==
    IF code = <<"A">> THEN "added"
    ELSE IF code = <<"D">> THEN "deleted"
    ELSE "modified"

\* The loop of getDiffFiles over the lines of the name-status output: one
\* record per line of two fields or more, with the counts of the per-path
\* stat (zero when its output has fewer than two fields).
RECURSIVE FileInfos(_, _, _)
FileInfos(lines, cs, sok) ==
    IF lines = <<>> THEN <<>>
    ELSE LET line == Head(lines)
             parts == Fields(line)
         IN IF line = <<>> \/ Len(parts) < 2 THEN FileInfos(Tail(lines), cs, sok)
            ELSE LET statParts == Fields(PerPathStat(cs, parts[2], sok)) IN
                 <<[Path |-> parts[2], Status |-> StatusOf(parts[1]),
                    Additions |-> IF Len(statParts) >= 2 THEN Atoi(statParts[1]) ELSE 0,
                    Deletions |-> IF Len(statParts) >= 2 THEN Atoi(statParts[2]) ELSE 0]>>
                 \o FileInfos(Tail(lines), cs, sok)

\* Mutant: the records returned in the order git printed them.
Sorted_asPrinted(files) == {files}

\* The orders sort.Slice can leave the records in: every arrangement of
\* them in which no record comes before one of a smaller path (the sort is
\* not stable).
Sorted(files) ==
    {[i \in 1..Len(files) |-> files[p[i]]] :
        p \in {q \in [1..Len(files) -> 1..Len(files)] :
                 /\ \A i, j \in 1..Len(files) : i # j => q[i] # q[j]
                 /\ \A i, j \in 1..Len(files) :
                        i < j => ~StrLess(files[q[j]].Path, files[q[i]].Path)}}

\* The name-status command of getDiffFiles succeeds: against HEAD for
\* "working", against the parent of the commit for a commit id, which has
\* to resolve and to have a parent.
NameStatusOk(diffID, h, n, ok) ==
    /\ ok
    /\ \/ diffID = WorkingID
       \/ LET r == ResolveRev(diffID, h, n) IN r # <<>> /\ AncestorsOf(r[1], n) > 0

\* The revision getDiffFiles diffs the working tree against, in the
\* name-status command and in the per-path stats: HEAD for "working", the
\* parent of the commit for any other id.
DiffBase(diffID) ==
    IF diffID = WorkingID THEN <<"H", "E", "A", "D">> ELSE diffID \o <<"^">>

\* getDiffFiles: `git diff --name-status <base>`, 500 when it fails; one
\* record per line, with the counts of a per-path stat (its failure
\* discarded); the records sorted by path.
GetDiffFiles ==
    /\ lreq.pc = "idle"
    /\ \E diffID \in DiffIdTexts(head, anc), cs \in ChangeLists,
          ok \in BOOLEAN, sok \in BOOLEAN :
        LET r0 == [IdleList EXCEPT !.op = "files", !.pc = "done", !.diffID = diffID,
                                   !.tip = head, !.changes = cs, !.logOk = sok,
                                   !.base = DiffBase(diffID), !.cmdOk = ok]
            files == FileInfos(Split(TrimSpace(NameStatusOutput(cs)), "\n"), cs, sok)
        IN IF ~NameStatusOk(diffID, head, anc, ok)
           THEN lreq' = [r0 EXCEPT !.status = 500]
           ELSE \E sorted \in Sorted(files) :
                   lreq' = [r0 EXCEPT !.status = 200, !.body = sorted]
    /\ UNCHANGED <<statLines, statResult, anc, valVars, fileVars, amendVars,
                 mainVars, clientVars>>

\* The response is sent and the handler returns.
ListRespond ==
    /\ lreq.pc = "done"
    /\ lreq' = IdleList
    /\ UNCHANGED <<statLines, statResult, anc, valVars, fileVars, amendVars,
                 mainVars, clientVars>>

\* ------------------------------------------------------ a call of parseDiffStat
\* The lines of a stat output that are no numstat lines: an empty one and
\* one of a single field.
JunkLines == {[text |-> <<>>], [text |-> <<"f">>]}
IsJunk(x) == "text" \in DOMAIN x

StatLineText(x) == IF IsJunk(x) THEN x.text ELSE NumstatLine(x)

RECURSIVE StatText(_)
StatText(xs) ==
    IF xs = <<>> THEN <<>>
    ELSE StatLineText(Head(xs)) \o <<"\n">> \o StatText(Tail(xs))

PendingStat == [additions |-> 0 - 1, deletions |-> 0 - 1, filesCount |-> 0 - 1]

\* A call of parseDiffStat about to be made, on the output for any list of
\* lines.
InitStat ==
    /\ statLines \in UNION {[1..k -> StatEntries \cup JunkLines] : k \in 0..MaxStatLines}
    /\ statResult = PendingStat

\* The call returns.
ParseStat ==
    /\ statResult = PendingStat
    /\ statResult' = parseDiffStat(StatText(statLines))
    /\ UNCHANGED <<statLines, anc, lreq, valVars, fileVars, amendVars,
                 mainVars, clientVars>>

\* ------------------------------------------------------------------ main
\* The most requests the process is followed through.
MaxServed == 3

\* The directories the process can be started in: the root of the
\* repository, directories below it, and directories outside any repository.
StartDirs ==
    {<<"/", "r">>, <<"/", "r", "/", "s">>, <<"/", "r", "/", "s", "/", "t">>,
     <<"/", "x">>, <<"/">>}

\* The routes main registers: the API, the index page and the fallback.
Routes ==
    {"GET /api/repo-info", "GET /api/diffs", "GET /api/diffs/:id/files",
     "GET /api/diffs/:id/commits", "GET /api/file-diff/:id/*filepath",
     "POST /api/file-save/:id/*filepath", "POST /api/commit/:id/amend-message",
     "GET /", "NoRoute"}

\* getGitRoot in the directory cwd: the output of
\* `git rev-parse --show-toplevel` without its white space, or the error
\* "not a git repository" when the command fails.
getGitRoot(cwd, ok) ==
    IF ok /\ UnderRoot(Elements(cwd))
    THEN [err |-> FALSE, root |-> TrimSpace(gitRoot \o <<"\n">>)]
    ELSE [err |-> TRUE, root |-> <<>>]

\* The process at its start in the directory cwd: the globals unset.
StartMain(cwd) ==
    [pc |-> "getGitRoot", cwd |-> cwd, gitRoot |-> <<>>, secureRoot |-> <<>>,
     resolved |-> 0, rootsOpened |-> 0, served |-> 0, route |-> "", exit |-> 0]

InitMain == main \in {StartMain(cwd) : cwd \in StartDirs}

\* The process serving, as the handlers above take it to be.
Serving ==
    main = [StartMain(gitRoot) EXCEPT !.pc = "serving", !.gitRoot = gitRoot,
                                      !.secureRoot = gitRoot, !.resolved = 1,
                                      !.rootsOpened = 1]

\* gitRoot, err = getGitRoot(); exit status 1 on error.
MainGetGitRoot ==
    /\ main.pc = "getGitRoot"
    /\ \E ok \in BOOLEAN :
        LET r == getGitRoot(main.cwd, ok) IN
        main' = IF r.err
                THEN [main EXCEPT !.pc = "exited", !.exit = 1]
                ELSE [main EXCEPT !.pc = "OpenRoot", !.gitRoot = r.root,
                                  !.resolved = @ + 1]
    /\ UNCHANGED <<valVars, fileVars, amendVars, listVars, clientVars>>

\* Mutant: the process going on without a rooted handle when OpenRoot fails.
MainOpenRoot_ignoreError ==
    /\ main.pc = "OpenRoot"
    /\ \E ok \in BOOLEAN :
        main' = IF ~ok
                THEN [main EXCEPT !.pc = "Run"]
                ELSE [main EXCEPT !.pc = "Run", !.secureRoot = main.gitRoot,
                                  !.rootsOpened = @ + 1]
    /\ UNCHANGED <<valVars, fileVars, amendVars, listVars, clientVars>>

\* secureRoot, err = os.OpenRoot(gitRoot); exit status 1 on error.
MainOpenRoot ==
    /\ main.pc = "OpenRoot"
    /\ \E ok \in BOOLEAN :
        main' = IF ~ok
                THEN [main EXCEPT !.pc = "exited", !.exit = 1]
                ELSE [main EXCEPT !.pc = "Run", !.secureRoot = main.gitRoot,
                                  !.rootsOpened = @ + 1]
    /\ UNCHANGED <<valVars, fileVars, amendVars, listVars, clientVars>>

\* The routes are registered and r.Run(listen) starts to serve; log.Fatal
\* (exit status 1) when the embedded files or the listener fail.
MainRun ==
    /\ main.pc = "Run"
    /\ \E ok \in BOOLEAN :
        main' = IF ~ok
                THEN [main EXCEPT !.pc = "exited", !.exit = 1]
                ELSE [main EXCEPT !.pc = "serving"]
    /\ UNCHANGED <<valVars, fileVars, amendVars, listVars, clientVars>>

\* A request is routed to its handler, which reads the globals.
MainServe ==
    /\ main.pc = "serving"
    /\ main.served < MaxServed
    /\ \E route \in Routes :
        main' = [main EXCEPT !.served = @ + 1, !.route = route]
    /\ UNCHANGED <<valVars, fileVars, amendVars, listVars, clientVars>>

\* r.Run returns with an error: log.Fatal ends the process.
MainStop ==
    /\ main.pc = "serving"
    /\ main' = [main EXCEPT !.pc = "exited", !.exit = 1]
    /\ UNCHANGED <<valVars, fileVars, amendVars, listVars, clientVars>>

\* ---------------------------------------------------------------- client
\* The most requests for lists and diffs the client has in flight, and the
\* most changes of the editor's content followed.
MaxFlight == 3
MaxEdits == 2

\* No diff loaded (fileDiff is null).
NoFileDiff == [loaded |-> FALSE, path |-> <<>>, diffID |-> "", newContent |-> <<>>]

\* The client after mount, before the list of diffs arrived: nothing
\* selected (null is the empty string), nothing in flight.
IdleClient ==
    /\ selectedDiff = "" /\ clientFiles = <<>> /\ selectedFile = <<>>
    /\ fileDiff = NoFileDiff /\ loading = FALSE /\ fetches = {}
    /\ editor = <<>> /\ saves = {} /\ edits = 0 /\ answers = {}

\* The requests of loadFiles and loadFileDiff.
FilesFetch(diffID) == [kind |-> "files", diffID |-> diffID, filePath |-> <<>>]
FileDiffFetch(diffID, filePath) ==
    [kind |-> "fileDiff", diffID |-> diffID, filePath |-> filePath]

\* The lists of files the server answers, sorted by path, whatever the
\* repository holds.
FileLists == {<<>>, <<<<"f">>>>, <<<<"m">>>>, <<<<"f">>, <<"m">>>>}

\* The diff editor is rendered: !loading && fileDiff && selectedDiff.
Mounted(ld, fd, sd) == ~ld /\ fd.loaded /\ sd # ""
Shown == Mounted(loading, fileDiff, selectedDiff)

\* The content of the editor once the state is (ld, fd, sd): the editor is
\* created with fd.newContent when it is mounted or fd is a new diff, it
\* keeps its content while it stays mounted on the same diff, and it is
\* gone while it is not rendered.
EditorAfter(ld, fd, sd) ==
    IF ~Mounted(ld, fd, sd) THEN <<>>
    ELSE IF ~Shown \/ fd # fileDiff THEN fd.newContent
    ELSE editor

\* The user picks a diff: the effect on selectedDiff calls loadFiles and
\* clears selectedFile and fileDiff; the effect on (selectedDiff,
\* selectedFile) of the same render, still holding the file selected
\* before, calls loadFileDiff for it.
SelectDiff ==
    /\ Cardinality(fetches) + 2 <= MaxFlight
    /\ \E d \in DiffIds :
        /\ d # selectedDiff
        /\ selectedDiff' = d
        /\ fetches' = fetches \cup {FilesFetch(d)}
                       \cup (IF selectedFile # <<>>
                             THEN {FileDiffFetch(d, selectedFile)} ELSE {})
    /\ selectedFile' = <<>>
    /\ fileDiff' = NoFileDiff
    /\ loading' = TRUE
    /\ editor' = <<>>
    /\ UNCHANGED <<clientFiles, saves, edits, answers>>
    /\ UNCHANGED <<valVars, fileVars, amendVars, listVars, mainVars>>

\* The user picks a file of the list (or moves to the next or previous
\* one): the effect calls loadFileDiff for the selected diff.
SelectFile ==
    /\ Cardinality(fetches) + 1 <= MaxFlight
    /\ \E i \in 1..Len(clientFiles) :
        /\ clientFiles[i] # selectedFile
        /\ selectedFile' = clientFiles[i]
        /\ IF selectedDiff # ""
           THEN /\ fetches' = fetches \cup {FileDiffFetch(selectedDiff, clientFiles[i])}
                /\ loading' = TRUE
                /\ editor' = <<>>
           ELSE UNCHANGED <<fetches, loading, editor>>
    /\ UNCHANGED <<selectedDiff, clientFiles, fileDiff, saves, edits, answers>>
    /\ UNCHANGED <<valVars, fileVars, amendVars, listVars, mainVars>>

\* The answer to a loadFiles arrives: the list is stored and its first file
\* selected, whose effect calls loadFileDiff for the diff selected now;
\* loading is cleared.  A failed request only clears loading.
FilesResponse ==
    \E r \in fetches, ok \in BOOLEAN, fl \in FileLists :
        /\ r.kind = "files"
        /\ LET sel == IF ok /\ fl # <<>> THEN fl[1] ELSE selectedFile
               load == sel # selectedFile /\ selectedDiff # ""
           IN /\ clientFiles' = IF ok THEN fl ELSE clientFiles
              /\ selectedFile' = sel
              /\ fetches' = (fetches \ {r})
                             \cup (IF load THEN {FileDiffFetch(selectedDiff, sel)}
                                   ELSE {})
              /\ loading' = load
              /\ editor' = EditorAfter(load, fileDiff, selectedDiff)
        /\ UNCHANGED <<selectedDiff, fileDiff, saves, edits, answers>>
        /\ UNCHANGED <<valVars, fileVars, amendVars, listVars, mainVars>>

\* The answer to a loadFileDiff arrives: it becomes fileDiff and loading is
\* cleared.  A failed request only clears loading.
FileDiffResponse ==
    \E r \in fetches, ok \in BOOLEAN :
        /\ r.kind = "fileDiff"
        /\ LET fd == IF ok
                     THEN [loaded |-> TRUE, path |-> r.filePath, diffID |-> r.diffID,
                           newContent |-> FileDiffOf(disk, r.diffID, r.filePath).newContent]
                     ELSE fileDiff
           IN /\ fileDiff' = fd
              /\ editor' = EditorAfter(FALSE, fd, selectedDiff)
        /\ fetches' = fetches \ {r}
        /\ loading' = FALSE
        /\ UNCHANGED <<selectedDiff, clientFiles, selectedFile, saves, edits, answers>>
        /\ UNCHANGED <<valVars, fileVars, amendVars, listVars, mainVars>>

\* The user changes the content of the editor: onDidChangeModelContent
\* calls handleContentChange, which sends a saveFile for selectedFile
\* without waiting for the saves sent before (none when nothing is
\* selected).
Edit ==
    /\ Shown
    /\ edits < MaxEdits
    /\ \E content \in Contents \ {editor} :
        /\ editor' = content
        /\ saves' = IF selectedDiff = "" \/ selectedFile = <<>> THEN saves
                     ELSE saves \cup {[diffID |-> selectedDiff, filePath |-> selectedFile,
                                       content |-> content, n |-> edits + 1]}
    /\ edits' = edits + 1
    /\ UNCHANGED <<selectedDiff, clientFiles, selectedFile, fileDiff, loading, fetches, answers>>
    /\ UNCHANGED <<valVars, fileVars, amendVars, listVars, mainVars>>

\* The server takes up one of the saves sent, in any order: saveFile up to
\* the call of OpenFile, as in SaveStart, for the path and the body of the
\* request.
SaveReceived(c) ==
    /\ req[c].pc = "idle"
    /\ \E s \in saves :
        LET filePath == TrimPrefixSlash(<<"/">> \o s.filePath)
            err == validateRepoPath(filePath, LsFilesMatches(filePath))
            r0 == [IdleReq EXCEPT !.op = "save", !.filePath = filePath]
        IN /\ req' = [req EXCEPT ![c] =
                  IF err # ErrNone
                  THEN [r0 EXCEPT !.pc = "done", !.status = 403, !.verr = err]
                  ELSE [r0 EXCEPT !.pc = "open", !.content = s.content, !.verr = err]]
           /\ saves' = saves \ {s}
    /\ UNCHANGED <<selectedDiff, clientFiles, selectedFile, fileDiff, loading, fetches,
                   editor, edits, answers>>
    /\ UNCHANGED <<disk, valVars, amendVars, listVars, mainVars>>

\* The answer to a save arrives at the client.
SaveAnswered(c) ==
    /\ req[c].op = "save" /\ req[c].pc = "done"
    /\ req' = [req EXCEPT ![c] = IdleReq]
    /\ answers' = answers \cup {req[c].status}
    /\ UNCHANGED <<selectedDiff, clientFiles, selectedFile, fileDiff, loading, fetches,
                   editor, saves, edits>>
    /\ UNCHANGED <<disk, valVars, amendVars, listVars, mainVars>>

\* ----------------------------------------------------------- specifications
\* The variables of the validator while no call of it is being checked.
IdleValidate ==
    /\ vPath = <<>>
    /\ vTracked = FALSE
    /\ vResult = "pending"

\* The variables of parseDiffStat while no call of it is being checked.
IdleStat ==
    /\ statLines = <<>>
    /\ statResult = PendingStat

\* The history the service starts on and no list request in flight.
InitLists ==
    /\ anc \in HistoryDepths
    /\ lreq = IdleList

\* The service after start-up: no request in flight.
Init ==
    /\ IdleValidate /\ InitFiles /\ InitAmend /\ IdleStat /\ InitLists
    /\ Serving /\ IdleClient

\* A single call of validateRepoPath on any input.
InitValidateSpec ==
    /\ InitValidate /\ InitFiles /\ InitAmend /\ remote = {}
    /\ IdleStat /\ InitLists /\ anc = 2
    /\ Serving /\ IdleClient
SpecValidate == InitValidateSpec /\ [][Validate]_vars

\* The file handlers serving the clients' requests concurrently.
NextFiles ==
    \E c \in Clients :
        \/ SaveStart(c)
        \/ SaveOpen(c)
        \/ SaveWrite(c)
        \/ GetFileDiff(c)
        \/ GetFileDiffReadFile(c)
        \/ Respond(c)

InitFilesSpec ==
    /\ IdleValidate /\ InitFiles /\ InitAmend /\ remote = {}
    /\ IdleStat /\ InitLists /\ anc = 2
    /\ Serving /\ IdleClient
SpecFiles == InitFilesSpec /\ [][NextFiles]_vars

\* The amend handler serving the clients' requests concurrently.
NextAmend ==
    \/ Tick
    \/ \E c \in Clients :
        \/ AmendStart(c)
        \/ AmendRevParse(c)
        \/ AmendCheckPushed(c)
        \/ AmendCommit(c)
        \/ AmendNewHead(c)
        \/ AmendRespond(c)

InitAmendSpec == Init /\ anc = 2
SpecAmend == InitAmendSpec /\ [][NextAmend]_vars

\* The amend handler within one second of the clock, when every git
\* subprocess it starts returns and the goroutine of a request in flight
\* keeps being scheduled: each step of a request that has been received is
\* eventually taken.  Requests are not obliged to arrive.
NextAmendLive ==
    \E c \in Clients :
        \/ AmendStart(c)
        \/ AmendRevParse(c)
        \/ AmendCheckPushed(c)
        \/ AmendCommit(c)
        \/ AmendNewHead(c)
        \/ AmendRespond(c)

AmendFairness ==
    \A c \in Clients :
        /\ WF_vars(AmendRevParse(c))
        /\ WF_vars(AmendCheckPushed(c))
        /\ WF_vars(AmendCommit(c))
        /\ WF_vars(AmendNewHead(c))
        /\ WF_vars(AmendRespond(c))

SpecAmendLive == InitAmendSpec /\ [][NextAmendLive]_vars /\ AmendFairness

\* A single call of parseDiffStat on any input.
InitStatSpec ==
    /\ IdleValidate /\ InitFiles /\ InitAmend /\ remote = {}
    /\ InitStat /\ InitLists /\ anc = 2
    /\ Serving /\ IdleClient
SpecStat == InitStatSpec /\ [][ParseStat]_vars

\* The handlers that list diffs and files, on a repository no one commits
\* to meanwhile.
NextLists ==
    \/ GetDiffs
    \/ GetDiffFiles
    \/ ListRespond

InitListsSpec ==
    /\ IdleValidate /\ InitFiles /\ InitAmend /\ remote = {}
    /\ IdleStat /\ InitLists
    /\ Serving /\ IdleClient
SpecLists == InitListsSpec /\ [][NextLists]_vars

\* The handler that lists commits, while the amend requests of one client
\* are served concurrently.
Amender == "c2"

NextCommits ==
    \/ GetDiffCommitsRevParse
    \/ GetDiffCommitsLog
    \/ ListRespond
    \/ AmendStart(Amender)
    \/ AmendRevParse(Amender)
    \/ AmendCheckPushed(Amender)
    \/ AmendCommit(Amender)
    \/ AmendNewHead(Amender)
    \/ AmendRespond(Amender)

SpecCommits == InitListsSpec /\ [][NextCommits]_vars

\* The process from its start to its end.
NextMain ==
    \/ MainGetGitRoot
    \/ MainOpenRoot
    \/ MainRun
    \/ MainServe
    \/ MainStop

InitMainSpec ==
    /\ IdleValidate /\ InitFiles /\ InitAmend /\ remote = {}
    /\ IdleStat /\ InitLists /\ anc = 2
    /\ InitMain /\ IdleClient
SpecMain == InitMainSpec /\ [][NextMain]_vars

\* The client selecting diffs and files, the answers to its requests
\* arriving in any order.
NextClient ==
    \/ SelectDiff
    \/ SelectFile
    \/ FilesResponse
    \/ FileDiffResponse

SpecClient == InitFilesSpec /\ [][NextClient]_vars

\* The client showing the working-tree diff of the file f and editing it,
\* the server handling the saves concurrently.
NextSaves ==
    \/ Edit
    \/ \E c \in Clients :
        \/ SaveReceived(c)
        \/ SaveOpen(c)
        \/ SaveWrite(c)
        \/ SaveAnswered(c)

InitSavesSpec ==
    /\ IdleValidate /\ InitFiles /\ InitAmend /\ remote = {}
    /\ IdleStat /\ InitLists /\ anc = 2
    /\ Serving
    /\ selectedDiff = "working" /\ clientFiles = <<<<"f">>>> /\ selectedFile = <<"f">>
    /\ fileDiff = [loaded |-> TRUE, path |-> <<"f">>, diffID |-> "working",
                   newContent |-> InitDisk[LocF].data]
    /\ loading = FALSE /\ fetches = {}
    /\ editor = InitDisk[LocF].data /\ saves = {} /\ edits = 0 /\ answers = {}
SpecSaves == InitSavesSpec /\ [][NextSaves]_vars

\* The whole service.
Next == NextFiles \/ NextAmend \/ NextLists \/ NextCommits
Spec == Init /\ [][Next]_vars

\* ------------------------------------------------------------- properties
\* C3: a relative path whose location, followed from the root, lies outside
\* the root is never validated, whatever the tracked-file check answered.
C3_EscapingPathFails ==
    (/\ vResult # "pending"
     /\ vPath # <<>>
     /\ ~IsAbs(vPath)
     /\ ~UnderRoot(LocationOf(vPath)))
    => vResult # ErrNone

\* C3 witness: an escaping path that the tracked-file check reported tracked
\* was rejected by the containment test.
C3_Witness ==
    /\ vResult = ErrOutside
    /\ vTracked
    /\ ~UnderRoot(LocationOf(vPath))

\* C4: validation succeeds exactly for a non-empty, non-absolute path that
\* is reported tracked and leads to the root or below it.
C4_ValidateIff ==
    vResult # "pending" =>
        (vResult = ErrNone <=>
            (/\ vPath # <<>>
             /\ ~IsAbs(vPath)
             /\ vTracked
             /\ UnderRoot(LocationOf(vPath))))

\* C4 witness: a path with a ".." element that stays inside was validated.
C4_Witness ==
    /\ vResult = ErrNone
    /\ \E i \in 1..Len(Elements(vPath)) : Elements(vPath)[i] = <<".", ".">>
    /\ LocationOf(vPath) # Elements(gitRoot)

\* The message of an amend request was bound from the body and is blank.
BlankMessage(r) == r.error # "Invalid request" /\ TrimSpace(r.message) = <<>>

\* C1 as stated: an amend naming the tip's parent, which is never HEAD, with
\* a message that is not blank is answered 403.
C1_Original ==
    \A c \in Clients :
        (/\ areq[c].pc = "done"
         /\ areq[c].error # "Invalid request"
         /\ ~BlankMessage(areq[c])
         /\ areq[c].commitID = ParentCommit)
        => areq[c].status = 403

\* C1: an amend with a message that is not blank whose id differs from the
\* HEAD hash the handler resolved is answered 403, and one whose HEAD
\* resolution failed is answered 500; neither has run the git amend nor
\* created a commit.
C1_NotHeadRejected ==
    \A c \in Clients :
        LET r == areq[c] IN
        /\ (/\ r.pc \notin {"idle", "revparse"}
            /\ ~BlankMessage(r)
            /\ r.error \notin {"Invalid request", "Failed to get HEAD"}
            /\ r.commitID # r.headHash)
           => (/\ r.pc = "done"
               /\ r.status = 403
               /\ "commit --amend" \notin r.cmds
               /\ r.created = NoHash)
        /\ r.error = "Failed to get HEAD"
           => (/\ r.pc = "done"
               /\ r.status = 500
               /\ "commit --amend" \notin r.cmds
               /\ r.created = NoHash)

\* C1 witness: an id that was HEAD when the request was made, and no longer
\* when the handler resolved HEAD, was rejected with 403 and HEAD kept.
C1_Witness ==
    \E c \in Clients :
        /\ areq[c].status = 403
        /\ areq[c].commitID # ParentCommit
        /\ areq[c].commitID # areq[c].headHash
        /\ head = areq[c].headHash

\* C9: an amend whose message is blank is answered 400 "Commit message
\* cannot be empty" before any git command is run, whatever id it names.
C9_BlankMessageRejected ==
    \A c \in Clients :
        (areq[c].pc # "idle" /\ BlankMessage(areq[c]))
        => (/\ areq[c].pc = "done"
            /\ areq[c].status = 400
            /\ areq[c].error = "Commit message cannot be empty"
            /\ areq[c].cmds = {}
            /\ areq[c].created = NoHash)

\* C9 witness: a blank, non-empty message naming a commit that is not HEAD
\* was rejected with 400.
C9_Witness ==
    \E c \in Clients :
        /\ areq[c].status = 400
        /\ areq[c].message = <<" ">>
        /\ areq[c].commitID = ParentCommit
        /\ areq[c].commitID # head

C11_AmendFailure ==
    [][\A c \in Clients :
        LET r == areq[c]
            r2 == areq'[c]
        IN /\ (r.pc = "amend" /\ r2.pc = "done")
              => (/\ r2.status = 500
                  /\ r2.error = "Failed to amend commit"
                  /\ r2.detail
                  /\ r2.created = NoHash
                  /\ head' = head)
           /\ "commit --amend" \in r2.cmds => r2.pc \in {"newhead", "done"}
           /\ r2.error = "Failed to amend commit"
              => (r2.pc = "done" /\ r2.status = 500 /\ r2.created = NoHash)
           /\ (r2.pc # r.pc /\ r2.pc # "newhead") => head' = head
      ]_vars

\* C11 witness: an amend of HEAD with a message that is not blank failed in
\* git, was answered 500 with the detail, and HEAD is the commit the request
\* resolved.
C11_Witness ==
    \E c \in Clients :
        /\ areq[c].pc = "done"
        /\ areq[c].status = 500
        /\ areq[c].detail
        /\ areq[c].message = <<"b">>
        /\ areq[c].commitID = areq[c].headHash
        /\ head = areq[c].headHash

\* C12 as stated: a successful amend carries the warning exactly when the
\* HEAD hash resolved before the amend is in a remote-tracking branch.
C12_Original ==
    \A c \in Clients :
        (areq[c].pc = "done" /\ areq[c].status = 200)
        => (areq[c].warning <=> areq[c].headHash \in remote)

\* C12: the probe never ends a request nor touches HEAD, whatever its
\* outcome: the amend is attempted next, and its answer is 200 when git
\* created the commit and 500 when it did not; a successful response carries
\* the warning exactly when the probe found the commit pushed (the command
\* succeeded and printed a branch), which it does only for a HEAD hash that
\* is in a remote-tracking branch.
C12_ProbeAdvisory ==
    [][\A c \in Clients :
        LET r == areq[c]
            r2 == areq'[c]
        IN /\ (r.pc = "check" /\ r2 # r)
              => (/\ r2.pc = "amend"
                  /\ r2.status = 0
                  /\ head' = head
                  /\ r2.isPushed => r.headHash \in remote)
           /\ (r.pc = "amend" /\ r2 # r)
              => (/\ "branch -r --contains" \in r.cmds
                  /\ "commit --amend" \in r2.cmds
                  /\ r2.pc \in {"newhead", "done"}
                  /\ r2.pc = "done" => r2.status = 500
                  /\ r2.isPushed = r.isPushed)
           /\ (r2.pc = "done" /\ r2.status = 200)
              => (/\ r2.created # NoHash
                  /\ r2.warning <=> r2.isPushed
                  /\ r2.warning => r2.headHash \in remote)
      ]_vars

\* C12 witness: the probe command failed on a HEAD that is in a
\* remote-tracking branch, and the amend went through, without the warning.
C12_Witness ==
    \E c \in Clients :
        /\ areq[c].pc = "done"
        /\ areq[c].status = 200
        /\ ~areq[c].isPushed
        /\ areq[c].headHash \in remote
        /\ ~areq[c].warning
        /\ areq[c].created # NoHash

\* The answer of an amend request, as the response carries it.
Answer(r) == <<r.status, r.error, r.detail, r.newCommit, r.warning>>

\* The states of the amend state machine, by the handler's position:
\* Validating while HEAD is being resolved, Amending from the probe to the
\* read of the new HEAD, Done and Rejected once the answer is decided.
Validating(r) == r.pc = "revparse"
Amending(r) == r.pc \in {"check", "amend", "newhead"}
Done(r) == r.pc = "done" /\ r.status = 200
Rejected(r) == r.pc = "done" /\ r.status # 200

\* C13: a request leaves Idle for Validating or, when the body is malformed
\* or the message blank, for Rejected; Amending is entered only from
\* Validating, with a message that is not blank and an id equal to the HEAD
\* just resolved; Done is entered only from Amending; Done and Rejected are
\* left only by the handler returning; and every request received
\* eventually reaches Done or Rejected.
C13_StateMachine ==
    /\ [][\A c \in Clients :
            LET r == areq[c]
                r2 == areq'[c]
            IN /\ r.pc = "idle" => (r2.pc = "idle" \/ Validating(r2) \/ Rejected(r2))
               /\ Validating(r) => (Validating(r2) \/ Amending(r2) \/ Rejected(r2))
               /\ (Amending(r2) /\ ~Amending(r))
                  => (/\ Validating(r)
                      /\ TrimSpace(r2.message) # <<>>
                      /\ r2.commitID = r2.headHash
                      /\ r2.headHash = head
                      /\ "rev-parse HEAD" \in r2.cmds)
               /\ Amending(r) => (Amending(r2) \/ Done(r2) \/ Rejected(r2))
               /\ Done(r2) => (Done(r) \/ Amending(r))
               /\ (Done(r) \/ Rejected(r))
                  => (\/ r2 = IdleAmend
                      \/ r2.pc = "done" /\ Answer(r2) = Answer(r))
        ]_vars
    /\ \A c \in Clients :
            [](areq[c].pc # "idle" => <>(Done(areq[c]) \/ Rejected(areq[c])))

\* C13 witness: a request has gone through Validating and Amending and is
\* Done, after another request's amend had been Rejected by git.
C13_Witness ==
    \E c, q \in Clients :
        /\ Done(areq[c])
        /\ areq[c].cmds = {"rev-parse HEAD", "branch -r --contains",
                           "commit --amend", "rev-parse HEAD (new)"}
        /\ Rejected(areq[q])
        /\ areq[q].error = "Failed to amend commit"

\* C2: a saveFile request attempts an open or a write only after its path
\* was validated, and one whose validation failed is answered 403 without
\* having opened, emptied or written any file.
C2_NoOpenUnlessValidated ==
    \A c \in Clients :
        LET r == req[c] IN
        r.op = "save"
        => (/\ (r.pc \in {"open", "write"} \/ r.opened # {} \/ r.mutated)
               => r.verr = ErrNone
            /\ r.verr \notin {ErrNone, "none"}
               => (/\ r.pc = "done"
                   /\ r.status = 403
                   /\ r.opened = {}
                   /\ r.reached = {}
                   /\ ~r.mutated))

\* C2 witness: a save of the escaping path ../x was answered 403 with no
\* open attempted, and the file outside the root is as it was.
C2_Witness ==
    \E c \in Clients :
        /\ req[c].op = "save"
        /\ req[c].status = 403
        /\ req[c].filePath = <<".", ".", "/", "x">>
        /\ req[c].opened = {}
        /\ disk[LocX] = InitDisk[LocX]

\* C5 as stated: every file a request opened in the working tree, for
\* reading or for writing, was named by a path that passes validateRepoPath
\* (the index never changes here, so a validation made in the same request
\* would have given this answer).
C5_OpensAreValidated ==
    \A c \in Clients :
        req[c].reached # {}
        => validateRepoPath(req[c].filePath, LsFilesMatches(req[c].filePath)) = ErrNone

\* C6 as stated: every file a request opened lies below the repository
\* root, whatever path string the client supplied.
C6_NoAccessOutsideRoot ==
    \A c \in Clients :
        \A loc \in req[c].reached : UnderRoot(Elements(loc))

\* C7 as stated: when two saves of the same file have both been answered
\* 200, the file holds the content of one of them.
C7_LastWriteWins ==
    \A c1, c2 \in Clients :
        (/\ c1 # c2
         /\ req[c1].op = "save" /\ req[c1].pc = "done" /\ req[c1].status = 200
         /\ req[c2].op = "save" /\ req[c2].pc = "done" /\ req[c2].status = 200
         /\ req[c1].handle = req[c2].handle)
        => disk[req[c1].handle].data \in {req[c1].content, req[c2].content}

\* C8: after a save answered 200, as long as no other request has emptied
\* or written the file since this one opened it, the file on disk holds the
\* saved content and getFileDiff returns it as newContent for every diff id.
C8_SaveRoundTrip ==
    \A c \in Clients :
        LET r == req[c] IN
        (r.op = "save" /\ r.pc = "done" /\ r.status = 200 /\ r.undisturbed)
        => (/\ disk[r.handle].data = r.content
            /\ \A d \in DiffIds :
                 FileDiffOf(disk, d, r.filePath).newContent = r.content)

\* C8 witness: a save of "bb" was answered 200 and a later getFileDiff of
\* the same path by the other client returned "bb".
C8_Witness ==
    \E c, q \in Clients :
        /\ req[c].op = "save" /\ req[c].pc = "done" /\ req[c].status = 200
        /\ req[c].undisturbed
        /\ req[c].content = <<"b", "b">>
        /\ req[q].op = "read" /\ req[q].pc = "done"
        /\ req[q].filePath = req[c].filePath
        /\ req[q].newContent = <<"b", "b">>

\* The totals of a list of files counted one by one: the lines added and
\* deleted of the files that are not binary, and the number of files.
RECURSIVE Totals(_)
Totals(es) ==
    IF es = <<>> THEN NoStat
    ELSE LET e == Head(es)
             t == Totals(Tail(es))
         IN IF IsJunk(e) THEN t
            ELSE [additions |-> t.additions + (IF e.binary THEN 0 ELSE e.additions),
                  deletions |-> t.deletions + (IF e.binary THEN 0 ELSE e.deletions),
                  filesCount |-> t.filesCount + 1]

\* The counts of an entry of getDiffs.
CountsOf(d) ==
    [additions |-> d.Additions, deletions |-> d.Deletions, filesCount |-> d.FilesCount]

Min(a, b) == IF a < b THEN a ELSE b

\* C15: a list of getDiffs is the working entry followed by one entry for
\* each of the min(20, number of commits) most recent commits, the tip
\* first and then its ancestors in order, each with its hash as id and its
\* subject as message, and no id twice.
C15_DiffsWindow ==
    (lreq.op = "diffs" /\ lreq.pc = "done" /\ lreq.status = 200)
    => (/\ Len(lreq.body) = 1 + Min(LogLimit, anc + 1)
        /\ lreq.body[1].ID = WorkingID
        /\ \A i \in 2..Len(lreq.body) :
              LET c == IF i = 2 THEN lreq.tip ELSE Ancestor(i - 2) IN
              /\ lreq.body[i].ID = HashText(c)
              /\ lreq.body[i].Message = Subject(c.msg)
              /\ lreq.body[i].Author = AuthorName
              /\ lreq.body[i].Timestamp = AuthorTime
        /\ \A i, j \in 1..Len(lreq.body) :
              i # j => lreq.body[i].ID # lreq.body[j].ID)

\* C15 witness: on a history of more than 20 commits the list has the
\* working entry and 20 commits, the last one the 19th ancestor of the tip.
C15_Witness ==
    /\ lreq.op = "diffs" /\ lreq.status = 200
    /\ anc + 1 > LogLimit
    /\ Len(lreq.body) = LogLimit + 1
    /\ lreq.body[2].ID = HashText(head)
    /\ lreq.body[LogLimit + 1].ID = HashText(Ancestor(LogLimit - 1))

\* C16: parseDiffStat returns the sum of the lines added, the sum of the
\* lines deleted and the number of files of the numstat lines it is given:
\* a binary file counts as a file and adds no lines, and a line of fewer
\* than two fields counts for nothing.
C16_StatAdditive ==
    statResult # PendingStat => statResult = Totals(statLines)

\* C16 witness: the files +3/-1 and +2/-0 give additions 5, deletions 1 and
\* 2 files.
C16_Witness ==
    /\ Len(statLines) = 2
    /\ \A i \in 1..2 : ~IsJunk(statLines[i]) /\ ~statLines[i].binary
    /\ <<statLines[1].additions, statLines[1].deletions>> = <<3, 1>>
    /\ <<statLines[2].additions, statLines[2].deletions>> = <<2, 0>>
    /\ statResult = [additions |-> 5, deletions |-> 1, filesCount |-> 2]

\* C17: a list of getDiffs has one entry for every commit the log printed,
\* in the log's order, whichever stat commands failed: the entry of the
\* root commit, whose stat command always fails, and of a commit whose stat
\* command failed carry zero counts, and every other entry the totals of
\* its commit.
C17_NoCommitDropped ==
    (lreq.op = "diffs" /\ lreq.pc = "done" /\ lreq.status = 200)
    => (/\ Len(lreq.body) = 1 + Len(lreq.logged)
        /\ \A i \in 1..Len(lreq.logged) :
              /\ lreq.body[i + 1].ID = HashText(lreq.logged[i])
              /\ CountsOf(lreq.body[i + 1])
                   = (IF i = lreq.failAt \/ i = anc + 1 THEN NoStat
                      ELSE Totals(CommitStat(lreq.logged[i])))
        /\ anc + 1 <= LogLimit
           => lreq.body[Len(lreq.body)].ID = HashText(LogOrder(lreq.tip, anc)[anc + 1]))

\* C17 witness: on C1 -> C2 -> C3 the stat command of C2 and that of the
\* root C1 failed, and the list has C3 with its counts, C2 and C1 with zero.
C17_Witness ==
    /\ lreq.op = "diffs" /\ lreq.status = 200
    /\ anc = 2 /\ lreq.failAt = 2
    /\ Len(lreq.body) = 4
    /\ CountsOf(lreq.body[2]) # NoStat
    /\ CountsOf(lreq.body[3]) = NoStat
    /\ lreq.body[4].ID = HashText(Ancestor(2))
    /\ CountsOf(lreq.body[4]) = NoStat

\* The ids of the records of an answer, in order.
IDs(body) == [i \in 1..Len(body) |-> body[i].ID]

\* C18 as stated: for the hash of an ancestor of the tip as base, the
\* answer of getDiffCommits is the commits after the base up to the tip, the
\* base itself left out.
C18_BaseExcluded ==
    \A k \in 1..anc :
        (/\ lreq.op = "commits" /\ lreq.pc = "done" /\ lreq.status = 200
         /\ lreq.diffID = HashText(Ancestor(k)))
        => IDs(lreq.body)
            = <<HashText(lreq.tip)>> \o [j \in 1..(k - 1) |-> HashText(Ancestor(j))]

\* C19 as stated: every list getDiffCommits returns has exactly one record
\* marked as HEAD, the first.
C19_OneHeadFirst ==
    (lreq.op = "commits" /\ lreq.pc = "done" /\ lreq.status = 200)
    => (/\ Len(lreq.body) >= 1
        /\ lreq.body[1].IsHead
        /\ \A i \in 2..Len(lreq.body) : ~lreq.body[i].IsHead)

\* The first path and the status a changed file is to be listed with.
ExpectedFile(e) ==
    [Path |-> Fields(e.path)[1],
     Status |-> CASE e.code = <<"A">> -> "added"
                  [] e.code = <<"D">> -> "deleted"
                  [] OTHER -> "modified"]

\* C20: a list of getDiffFiles has one record per changed file git
\* reported, in ascending order of the records' paths; the record of a file
\* carries the first path of its line (up to the first white space) and
\* "added" for code A, "deleted" for D and "modified" for every other code.
C20_FilesSorted ==
    (lreq.op = "files" /\ lreq.pc = "done" /\ lreq.status = 200)
    => (/\ Len(lreq.body) = Len(lreq.changes)
        /\ \A i, j \in 1..Len(lreq.body) :
              i < j => ~StrLess(lreq.body[j].Path, lreq.body[i].Path)
        /\ \E p \in [1..Len(lreq.body) -> 1..Len(lreq.body)] :
              /\ \A i, j \in 1..Len(lreq.body) : i # j => p[i] # p[j]
              /\ \A i \in 1..Len(lreq.body) :
                    /\ lreq.body[i].Path = ExpectedFile(lreq.changes[p[i]]).Path
                    /\ lreq.body[i].Status = ExpectedFile(lreq.changes[p[i]]).Status)

\* C20 witness: git printed the modified file f before the renamed file c,
\* and the list has c first, both as "modified".
C20_Witness ==
    /\ lreq.op = "files" /\ lreq.status = 200
    /\ Len(lreq.changes) = 2
    /\ lreq.changes[1].path = <<"f">>
    /\ lreq.changes[2].code = <<"R", "1", "0", "0">>
    /\ lreq.body[1].Path = <<"c">> /\ lreq.body[1].Status = "modified"
    /\ lreq.body[2].Path = <<"f">> /\ lreq.body[2].Status = "modified"

\* C21 as stated: the list of getDiffFiles is taken against HEAD for
\* "working" and against the parent of the commit for a commit id, and,
\* the stat commands having run, each changed file's record carries the
\* additions and deletions git counts for that file against that base.
C21_CountsMatchStat ==
    (lreq.op = "files" /\ lreq.pc = "done" /\ lreq.status = 200 /\ lreq.logOk)
    => (/\ lreq.base = (IF lreq.diffID = WorkingID THEN <<"H", "E", "A", "D">>
                        ELSE lreq.diffID \o <<"^">>)
        /\ Len(lreq.body) = Len(lreq.changes)
        /\ \E p \in [1..Len(lreq.body) -> 1..Len(lreq.body)] :
              /\ \A i, j \in 1..Len(lreq.body) : i # j => p[i] # p[j]
              /\ \A i \in 1..Len(lreq.body) :
                    /\ lreq.body[i].Additions = lreq.changes[p[i]].additions
                    /\ lreq.body[i].Deletions = lreq.changes[p[i]].deletions)

\* C30 as stated: getDiffFiles answers 200 for "working" and for the id of
\* every commit getDiffs lists of the same history, git itself running
\* without failure.
C30_ListedIdsAccepted ==
    (/\ lreq.op = "files" /\ lreq.pc = "done" /\ lreq.cmdOk
     /\ \/ lreq.diffID = WorkingID
        \/ \E i \in 1..Len(LogWindow(head, anc, LogLimit)) :
              lreq.diffID = HashText(LogWindow(head, anc, LogLimit)[i]))
    => lreq.status = 200

\* The path names a file of the working tree: it is relative, not empty,
\* and stays below the root.
InTree(filePath) ==
    filePath # <<>> /\ ~IsAbs(filePath) /\ UnderRoot(LocationOf(filePath))

C24_CheckOrder ==
    vResult # "pending"
    => LET invalid == vPath = <<>> \/ Head(vPath) = "/" IN
       /\ invalid <=> vResult = ErrInvalid
       /\ (~invalid /\ ~vTracked) => vResult = ErrNotTracked
       /\ vResult = ErrOutside
          => (~invalid /\ vTracked /\ ~UnderRoot(LocationOf(vPath)))

\* C24 witness: a relative path that leaves the root and is not tracked is
\* reported as not tracked.
C24_Witness ==
    /\ vResult = ErrNotTracked
    /\ vPath # <<>> /\ Head(vPath) # "/"
    /\ ~UnderRoot(LocationOf(vPath))

\* C25 as stated: the commit a successful `git commit --amend` of a request
\* replaces (the tip at the moment the command runs) is the commit the
\* request named.
C25_RewritesNamedCommit ==
    [][\A c \in Clients :
          (areq[c].pc = "amend" /\ areq'[c].pc = "newhead")
          => head = areq[c].commitID]_vars

\* C26 as stated: a saveFile that answers 400, 403 or 500 has not emptied
\* or written any file of the working tree.
C26_ErrorLeavesFiles ==
    \A c \in Clients :
        (req[c].op = "save" /\ req[c].pc = "done" /\ req[c].status \in {400, 403, 500})
        => ~req[c].mutated

C23_RootsBeforeServing ==
    /\ []((main.pc = "serving" \/ main.served > 0)
           => (/\ main.resolved = 1 /\ main.rootsOpened = 1
               /\ main.gitRoot = gitRoot /\ main.secureRoot = gitRoot))
    /\ []((main.pc = "exited" /\ (main.resolved = 0 \/ main.rootsOpened = 0))
           => (main.exit # 0 /\ main.served = 0))
    /\ [][main.pc = "serving"
           => (main'.gitRoot = main.gitRoot /\ main'.secureRoot = main.secureRoot)]_vars

\* C23 witness: started in a directory below the root, the process has
\* served two requests with both globals set.
C23_Witness ==
    /\ main.cwd = <<"/", "r", "/", "s">>
    /\ main.pc = "serving" /\ main.served = 2
    /\ main.gitRoot = gitRoot /\ main.secureRoot = gitRoot

\* C27 as stated: whenever the diff editor is shown, fileDiff is the diff
\* of selectedFile, loaded for selectedDiff.
C27_ShownIsSelected ==
    Shown => (fileDiff.path = selectedFile /\ fileDiff.diffID = selectedDiff)

\* C28 as stated: once every save sent was handled and answered with 200,
\* the file holds the content the editor has now.
C28_LastEditOnDisk ==
    (/\ edits > 0 /\ saves = {} /\ answers = {200}
     /\ \A c \in Clients : req[c].pc = "idle")
    => disk[LocF].data = editor

====
